---- MODULE Spec2Model ----
(***************************************************************************)
(* The authentication token lifecycle of boilerplate-backend: AuthService  *)
(* (validateUser, generateTokens, storeRefreshToken, login, signup,        *)
(* refreshToken, logout) over the relational store (prisma.user) and the   *)
(* key-value store (redis).  Every `await` of the service is one step of   *)
(* a request, so requests interleave at their store operations.            *)
(***************************************************************************)
EXTENDS Integers, Sequences, FiniteSets, TLC

\* ------------------------------------------------------------------ bounds
\* Requests that may be in flight at once.
MaxCalls == 2
\* Token pairs generated in one behaviour (the supply of randomUUID values).
MaxTokens == 3
\* Clock advances in one behaviour.
MaxTicks == 1
\* User rows ever created (the seeded one included).
MaxUsers == 2
\* Boilerplate rows ever created.
MaxBoilerplates == 2

\* ------------------------------------------------------- program constants
\* "15m", in seconds
ACCESS_TOKEN_EXPIRY == 15 * 60
REFRESH_TOKEN_EXPIRY == 7 * 24 * 60 * 60
MinPasswordLength == 8

\* ------------------------------------------------------------------ inputs
Emails == {"a@x.com", "b@x.com"}
Passwords == {"secret123", "wrongpass1", "short"}
\* The clock, in whole seconds, moves by a refresh token's validity window.
TickSteps == {REFRESH_TOKEN_EXPIRY}

Calls == 1..MaxCalls

\* process.env as the process finds it: nothing set, or a secret set.
NoEnv == [JWT_SECRET |-> "", REFRESH_SECRET |-> ""]
Environments ==
    [JWT_SECRET : {"", "env-jwt-secret"},
     REFRESH_SECRET : {"", "env-refresh-secret"}]

VARIABLES
    users,      \* prisma.user: id -> [email, password, role]
    nextUserId, \* ids handed out by prisma.user.create
    redis,      \* key -> [value, expireAt]
    now,        \* the clock, in seconds
    ticks,      \* clock advances so far
    nextUuid,   \* crypto.randomUUID(): the next value never returned before
    calls,      \* request slot -> the request's locals and its response
    issued,     \* refresh tokens delivered to a client (cookie / response)
    presented,  \* delivered refresh tokens some refreshToken call has been given
    rotated,    \* refresh tokens a refreshToken call has succeeded with
    revoked,    \* refresh tokens delivered before a logout of their user that
                \* has completed began
    env,        \* process.env: JWT_SECRET and REFRESH_SECRET, "" when not set
    loggedIn,   \* access tokens a login has returned
    resurrected,\* refresh tokens minted by a refreshToken call during which
                \* a logout covering its token completed
    boilerplates,      \* prisma.boilerplate: id -> the row
    nextBoilerplateId, \* ids handed out by prisma.boilerplate.create
    disk,              \* directory path -> [files, repo, staged, committed]
    job,               \* the createBoilerplate call: its locals and outcome
    likes,             \* prisma.userLikes: <<userId, boilerplateId>> -> rows
    reactions,         \* request slot -> a like / unlike call or a mutation
    pager              \* a client paging through the boilerplates query

vars == <<users, nextUserId, redis, now, ticks, nextUuid, calls,
          issued, presented, rotated, revoked, env, loggedIn, resurrected,
          boilerplates, nextBoilerplateId, disk, job, likes, reactions,
          pager>>

\* The state of the authentication service and of the boilerplate catalog.
authVars == <<users, nextUserId, redis, now, ticks, nextUuid, calls,
              issued, presented, rotated, revoked, env, loggedIn, resurrected>>
catalogVars == <<boilerplates, nextBoilerplateId, disk, job, likes,
                 reactions, pager>>
createVars == <<nextBoilerplateId, disk, job>>
likeVars == <<likes, reactions>>
pageVars == <<pager>>

\* process.env.JWT_SECRET || "your-secret-key", and likewise for the
\* refresh secret; the middleware has a default of its own.
JWT_SECRET ==
    IF env.JWT_SECRET = "" THEN "your-secret-key" ELSE env.JWT_SECRET
REFRESH_SECRET ==
    IF env.REFRESH_SECRET = "" THEN "your-refresh-secret"
    ELSE env.REFRESH_SECRET
MiddlewareSecret ==
    IF env.JWT_SECRET = "" THEN "your_jwt_secret_key" ELSE env.JWT_SECRET

\* ------------------------------------------------------------ library code
\* bcrypt.hash / bcrypt.compare: the hash is not the password, and compare
\* accepts exactly the password that was hashed.
BcryptHash(password) == <<"bcrypt", password>>
BcryptCompare(password, hash) == hash = BcryptHash(password)

\* jwt.sign(payload, secret, {expiresIn}): the claims plus iat and exp,
\* bound to the signing secret.
JwtSign(payload, secret, expiresIn, t) ==
    [payload |-> payload, iat |-> t, exp |-> t + expiresIn, secret |-> secret]

\* jwt.verify(token, secret): throws (JsonWebTokenError or its subclass
\* TokenExpiredError) unless the signature is of this secret and the clock
\* is before exp.
JwtVerifyIgnoringExp(token, secret, t) == token.secret = secret
JwtVerify(token, secret, t) == token.secret = secret /\ t < token.exp

\* ------------------------------------------------------------- redis client
SessionKey(userId, tokenId) == <<"refresh_token", userId, tokenId>>
TokenKey(refreshToken) == <<"token", refreshToken>>

\* GET: <<>> for nil, <<value>> for a hit.
RedisGet(store, key) ==
    IF key \in DOMAIN store THEN <<store[key].value>> ELSE <<>>

\* SET key value EX seconds
RedisSet(store, key, value, seconds, t) ==
    [k \in DOMAIN store \cup {key} |->
        IF k = key THEN [value |-> value, expireAt |-> t + seconds]
        ELSE store[k]]

\* DEL key...
RedisDelOne(store, keys) ==
    IF keys = {} THEN store
    ELSE LET k == CHOOSE x \in keys : TRUE
         IN  [j \in DOMAIN store \ {k} |-> store[j]]
RedisDel(store, keys) == [k \in DOMAIN store \ keys |-> store[k]]

\* KEYS refresh_token:{userId}:*
RedisKeysOfAnyUser(store, userId) ==
    {k \in DOMAIN store : k[1] = "refresh_token"}
RedisKeys(store, userId) ==
    {k \in DOMAIN store : k[1] = "refresh_token" /\ k[2] = userId}

\* Keys whose time to live has run out are gone.  Redis counts the time to
\* live in milliseconds from the SET, the clock here counts whole seconds:
\* in the second a key's time runs out it is first still there (Tick keeps
\* it) and then gone (Expire).
RedisExpire(store, t) ==
    [k \in {j \in DOMAIN store : store[j].expireAt >= t} |-> store[k]]
RedisExpireNow(store, t) ==
    [k \in {j \in DOMAIN store : store[j].expireAt > t} |-> store[k]]


\* ----------------------------------------------------------- prisma.user
FindUniqueByEmail(db, email) == {id \in DOMAIN db : db[id].email = email}

\* const { password: _, ...safeUser } = user
SafeUser(db, id) == [id |-> id, email |-> db[id].email, role |-> db[id].role]

\* ------------------------------------------------------------ AuthService
\* validateUser: <<>> for null, <<safeUser>> for a match.
validateUserNoCompare(db, email, password) ==
    LET found == FindUniqueByEmail(db, email)
    IN  IF found = {} THEN <<>>
        ELSE <<SafeUser(db, CHOOSE id \in found : TRUE)>>
validateUser(db, email, password) ==
    LET found == FindUniqueByEmail(db, email)
    IN  IF found = {} THEN <<>>
        ELSE LET id == CHOOSE i \in found : TRUE
             IN  IF ~BcryptCompare(password, db[id].password) THEN <<>>
                 ELSE <<SafeUser(db, id)>>

generateTokensUserId(user, tokenId, t) ==
    [accessToken |->
        JwtSign([email |-> user.email, sub |-> user.id, role |-> user.role,
                 jti |-> user.id],
                JWT_SECRET, ACCESS_TOKEN_EXPIRY, t),
     refreshToken |->
        JwtSign([sub |-> user.id, jti |-> user.id],
                REFRESH_SECRET, REFRESH_TOKEN_EXPIRY, t),
     tokenId |-> user.id]
generateTokens(user, tokenId, t) ==
    [accessToken |->
        JwtSign([email |-> user.email, sub |-> user.id, role |-> user.role,
                 jti |-> tokenId],
                JWT_SECRET, ACCESS_TOKEN_EXPIRY, t),
     refreshToken |->
        JwtSign([sub |-> user.id, jti |-> tokenId],
                REFRESH_SECRET, REFRESH_TOKEN_EXPIRY, t),
     tokenId |-> tokenId]

\* verifyToken: the claims jwt.verify(token, JWT_SECRET) decodes, <<>> for
\* the null returned when it throws.
verifyTokenWithRefreshSecret(token, t) ==
    IF JwtVerify(token, REFRESH_SECRET, t) THEN <<token.payload>> ELSE <<>>
verifyToken(token, t) ==
    IF JwtVerify(token, JWT_SECRET, t) THEN <<token.payload>> ELSE <<>>

\* JSON.stringify({userId, tokenId, createdAt}); JSON.parse gives the same
\* three fields back.
TokenDataWithoutId(userId, tokenId, t) ==
    [userId |-> userId, tokenId |-> 0, createdAt |-> t]
TokenData(userId, tokenId, t) ==
    [userId |-> userId, tokenId |-> tokenId, createdAt |-> t]

validatePassword(password) == Len(password) >= MinPasswordLength

\* The GraphQLError values the service and the login resolver throw.
Error(message, code) == [status |-> "error", message |-> message, code |-> code]
Ok == [status |-> "ok", message |-> "", code |-> ""]
Pending == [status |-> "pending", message |-> "", code |-> ""]

InvalidCredentials == Error("Invalid email or password", "UNAUTHORIZED")
JwtError == Error("Invalid refresh token", "UNAUTHORIZED")
TokenNotFoundError == Error("Refresh token not found", "UNAUTHORIZED")
NotFoundError == Error("Invalid refresh token", "UNAUTHORIZED")
MismatchError == Error("Invalid refresh token", "UNAUTHORIZED")
UserNotFound == Error("User not found", "UNAUTHORIZED")
PasswordTooShort ==
    Error("Password must be at least 8 characters long", "BAD_USER_INPUT")
EmailExists == Error("Email already exists", "BAD_USER_INPUT")
\* What the catch blocks make of an error of the redis client.
StoreFailed ==
    Error("Failed to store authentication data", "INTERNAL_SERVER_ERROR")
AuthenticationFailed == Error("Authentication failed", "INTERNAL_SERVER_ERROR")
AuthenticationError == Error("Authentication error", "UNAUTHORIZED")
LogoutFailed == Error("Logout failed", "INTERNAL_SERVER_ERROR")
\* res.status(401).json({message}) of the authenticate middleware.
RefreshTokenMissing == Error("Refresh token not found", "UNAUTHORIZED")
NoTokenProvided == Error("No token provided", "401")
InvalidBearer == Error("Invalid token", "401")

\* ---------------------------------------------------------------- requests
NoToken ==
    [payload |-> [sub |-> 0, jti |-> 0], iat |-> 0, exp |-> 0, secret |-> "none"]
NoTokens == [accessToken |-> NoToken, refreshToken |-> NoToken, tokenId |-> 0]
NoUser == [id |-> 0, email |-> "", role |-> ""]
NoCookie == [state |-> "unset", value |-> NoToken]
NoBody == [accessToken |-> NoToken, refreshToken |-> NoToken]

\* What login, signup and refreshToken return: {token | access_token,
\* refreshToken, user}.
AuthResponse(gen) ==
    [accessToken |-> gen.accessToken, refreshToken |-> gen.refreshToken]

IdleCall ==
    [op |-> "none", pc |-> "idle",
     refreshToken |-> NoToken,   \* the token a refreshToken call was given
     bearer |-> NoToken,         \* the token of the Authorization header
     userId |-> 0, tokenId |-> 0,
     user |-> NoUser,
     gen |-> NoTokens,           \* what generateTokens returned
     tokenData |-> TokenData(0, 0, 0),
     keys |-> {},                \* what KEYS returned to logout
     res |-> TRUE,               \* the caller passed the response object
     cookie |-> NoCookie,        \* the refreshToken cookie set on res
     body |-> NoBody,            \* the tokens in the value returned
     result |-> Pending,
     reason |-> "",              \* the branch that rejected the request
     muts |-> 0,                 \* SET / DEL commands the request has sent
     fresh |-> FALSE,            \* given a delivered token no call was given before
     replay |-> FALSE,           \* given a token already rotated
     overlap |-> FALSE,          \* another call with the same token was in flight
     second |-> FALSE,           \* succeeded with a token already rotated
     afterLogout |-> FALSE,      \* given a token a completed logout covers
     revoking |-> {}]            \* tokens delivered before this logout began

Busy(c) == calls[c].pc \notin {"idle", "done"}
Done(c) == calls[c].pc = "done"

\* A request takes the lowest slot that is not in flight.
CanStart(c) ==
    /\ ~Busy(c)
    /\ \A d \in Calls : d < c => Busy(d)

\* A slot shows its request's response for one step; the next step of any
\* request recycles it.
Recycle == [d \in Calls |-> IF Done(d) THEN IdleCall ELSE calls[d]]
Step(c, call) == [Recycle EXCEPT ![c] = call]

\* A randomUUID value is left for this request and for every refreshToken
\* call in flight that has not generated its tokens yet.
CanGenerate ==
    nextUuid + Cardinality({d \in Calls : calls[d].pc \in {"get", "findUser"}})
        <= MaxTokens

Finish(call, result, reason) ==
    [call EXCEPT !.pc = "done", !.result = result, !.reason = reason]

\* setRefreshTokenCookie(res, refreshToken)
setRefreshTokenCookie(call, refreshToken) ==
    [call EXCEPT !.cookie = [state |-> "set", value |-> refreshToken]]

\* res.cookie("refreshToken", "", {expires: new Date(0)})
ClearCookie(call) ==
    [call EXCEPT !.cookie = [state |-> "cleared", value |-> NoToken]]


\* ------------------------------------------------------ the catalog, idle
\* No boilerplate exists, the disk holds no repository directory and no
\* createBoilerplate call is in flight.
NoPath == <<>>
NoGitResult == [success |-> FALSE, message |-> "", path |-> NoPath]
IdleJob ==
    [pc |-> "idle",
     title |-> <<>>,             \* sanitizedTitle
     authorId |-> "", category |-> "",
     zip |-> "none",             \* the archive at data.zipFilePath
     base |-> <<>>,              \* this.boilerplatesBasePath
     repoPath |-> NoPath,        \* boilerplatesBasePath/authorId/sanitizedTitle
     fullPath |-> NoPath,        \* the directory processUploadedZip works in
     id |-> 0,                   \* result.id, 0 while no record was created
     isRepo |-> FALSE,
     processResult |-> NoGitResult,
     made |-> {},                \* directories this call created
     committed |-> FALSE,        \* this call's git commit succeeded
     status |-> "pending",       \* pending, ok (returned), error (threw)
     error |-> ""]
\* A request slot of the catalog with no request in it.
IdleReaction ==
    [op |-> "none", pc |-> "idle", userId |-> 0, boilerplateId |-> 0,
     status |-> "pending", error |-> ""]
IdleReactions == [c \in Calls |-> IdleReaction]
IdlePager == [pc |-> "idle"]
InitCatalog ==
    /\ boilerplates = <<>>
    /\ nextBoilerplateId = 1
    /\ disk = <<>>
    /\ job = IdleJob
    /\ likes = <<>>
    /\ reactions = IdleReactions
    /\ pager = IdlePager

\* ------------------------------------------------------------------- Init
\* The state after user 1 signed up at time 0: the user row exists, the
\* session of that signup is stored under both keys, its refresh token
\* is with the client, and no request is in flight.
SeedUsers ==
    [id \in {1} |->
        [email |-> "a@x.com", password |-> BcryptHash("secret123"),
         role |-> "USER"]]
SeedTokens == generateTokens(SafeUser(SeedUsers, 1), 1, 0)

InitSessions ==
    /\ users = SeedUsers
    /\ nextUserId = 2
    /\ redis = RedisSet(RedisSet(<<>>, SessionKey(1, 1), TokenData(1, 1, 0),
                                 REFRESH_TOKEN_EXPIRY, 0),
                        TokenKey(SeedTokens.refreshToken), TokenData(1, 1, 0),
                        REFRESH_TOKEN_EXPIRY, 0)
    /\ now = 0
    /\ ticks = 0
    /\ nextUuid = 2
    /\ calls = [c \in Calls |-> IdleCall]
    /\ issued = {SeedTokens.refreshToken}
    /\ presented = {}
    /\ rotated = {}
    /\ revoked = {}
    /\ loggedIn = {}
    /\ resurrected = {}
    /\ InitCatalog

\* The process started with nothing set in its environment.
Init ==
    /\ env = NoEnv
    /\ InitSessions

\* The process started in any environment.
InitEnv ==
    /\ env \in Environments
    /\ InitSessions

\* ---------------------------------------------------------------- actions
\* Mutation.login: validateUser, then AuthService.login up to the first
\* await of storeRefreshToken.
Login(c, email, password) ==
    /\ CanStart(c)
    /\ LET v == validateUser(users, email, password)
           call == [IdleCall EXCEPT !.op = "login"]
           \* the two logger.warn branches of validateUser
           reason == IF FindUniqueByEmail(users, email) = {}
                     THEN "unknownEmail" ELSE "wrongPassword"
       IN  IF v = <<>>
           THEN /\ calls' = Step(c, Finish(call, InvalidCredentials, reason))
                /\ UNCHANGED nextUuid
           ELSE /\ CanGenerate
                /\ calls' = Step(c,
                        [call EXCEPT !.pc = "setSession",
                                     !.userId = v[1].id,
                                     !.user = v[1],
                                     !.gen = generateTokens(v[1], nextUuid, now),
                                     !.tokenData = TokenData(v[1].id, nextUuid, now)])
                /\ nextUuid' = nextUuid + 1
    /\ UNCHANGED <<catalogVars, env, loggedIn, resurrected,
                   users, nextUserId, redis, now, ticks, issued, presented,
                   rotated, revoked>>

\* AuthService.signup up to the first await of storeRefreshToken:
\* validatePassword, bcrypt.hash, prisma.user.create, generateTokens.
Signup(c, email, password) ==
    /\ CanStart(c)
    /\ LET call == [IdleCall EXCEPT !.op = "signup"]
       IN  IF ~validatePassword(password)
           THEN /\ calls' = Step(c, Finish(call, PasswordTooShort, "password"))
                /\ UNCHANGED <<users, nextUserId, nextUuid>>
           ELSE IF FindUniqueByEmail(users, email) # {}
           THEN /\ calls' = Step(c, Finish(call, EmailExists, "email"))
                /\ UNCHANGED <<users, nextUserId, nextUuid>>
           ELSE /\ nextUserId <= MaxUsers
                /\ CanGenerate
                /\ users' = [id \in DOMAIN users \cup {nextUserId} |->
                        IF id = nextUserId
                        THEN [email |-> email,
                              password |-> BcryptHash(password),
                              role |-> "USER"]
                        ELSE users[id]]
                /\ nextUserId' = nextUserId + 1
                /\ LET safeUser == SafeUser(users', nextUserId)
                   IN  calls' = Step(c,
                        [call EXCEPT !.pc = "setSession",
                                     !.userId = nextUserId,
                                     !.user = safeUser,
                                     !.gen = generateTokens(safeUser, nextUuid, now),
                                     !.tokenData =
                                         TokenData(nextUserId, nextUuid, now)])
                /\ nextUuid' = nextUuid + 1
    /\ UNCHANGED <<catalogVars, env, loggedIn, resurrected,
                   redis, now, ticks, issued, presented, rotated, revoked>>

\* storeRefreshToken, first SET: refresh_token:{userId}:{tokenId}.
StoreRefreshTokenById(c) ==
    /\ calls[c].pc = "setSession"
    /\ redis' = RedisSet(redis,
                         SessionKey(calls[c].userId, calls[c].gen.tokenId),
                         calls[c].tokenData, REFRESH_TOKEN_EXPIRY, now)
    /\ calls' = Step(c, [calls[c] EXCEPT !.pc = "setToken", !.muts = @ + 1])
    /\ UNCHANGED <<catalogVars, env, loggedIn, resurrected,
                   users, nextUserId, now, ticks, nextUuid, issued,
                   presented, rotated, revoked>>

\* storeRefreshToken, second SET: token:{refreshToken}; then the caller
\* (login, signup, refreshToken) sets the cookie and returns the tokens.
StoreRefreshTokenByValue(c) ==
    /\ calls[c].pc = "setToken"
    /\ calls[c].res
    /\ redis' = RedisSet(redis, TokenKey(calls[c].gen.refreshToken),
                         calls[c].tokenData, REFRESH_TOKEN_EXPIRY, now)
    /\ calls' = Step(c,
            Finish(setRefreshTokenCookie(
                       [calls[c] EXCEPT !.muts = @ + 1,
                                        !.body = AuthResponse(calls[c].gen),
                                        !.second = calls[c].op = "refresh"
                                            /\ calls[c].refreshToken \in rotated],
                       calls[c].gen.refreshToken),
                   Ok, ""))
    /\ issued' = issued \cup {calls[c].gen.refreshToken}
    /\ rotated' = IF calls[c].op = "refresh"
                  THEN rotated \cup {calls[c].refreshToken}
                  ELSE rotated
    /\ loggedIn' = IF calls[c].op = "login"
                   THEN loggedIn \cup {calls[c].gen.accessToken}
                   ELSE loggedIn
    /\ resurrected' = IF /\ calls[c].op = "refresh"
                         /\ calls[c].refreshToken \in revoked
                         /\ ~calls[c].afterLogout
                      THEN resurrected \cup {calls[c].gen.refreshToken}
                      ELSE resurrected
    /\ UNCHANGED <<catalogVars, env,
                   users, nextUserId, now, ticks, nextUuid,
                   presented, revoked>>


\* What a client can send as its refresh token: a token it was given, a
\* token signed with some other secret, and a token with made-up claims
\* signed with the refresh secret.
ForgedToken(t) ==
    JwtSign([sub |-> 1, jti |-> 0], "other-secret", REFRESH_TOKEN_EXPIRY, t)
FabricatedToken(t) ==
    JwtSign([sub |-> 1, jti |-> 0], REFRESH_SECRET, REFRESH_TOKEN_EXPIRY, t)
Presentable == issued \cup {ForgedToken(now), FabricatedToken(now)}

\* refreshToken, the synchronous start: jwt.verify(refreshToken,
\* REFRESH_SECRET); a throw is caught as a JsonWebTokenError.
RefreshVerify(c, token) ==
    /\ CanStart(c)
    /\ LET call == [IdleCall EXCEPT !.op = "refresh",
                                    !.refreshToken = token,
                                    !.fresh = token \in issued \ presented,
                                    !.replay = token \in rotated,
                                    !.afterLogout = token \in revoked]
           others == {d \in Calls \ {c} :
                         /\ Busy(d)
                         /\ calls[d].op = "refresh"
                         /\ calls[d].refreshToken = token}
       IN  IF ~JwtVerify(token, REFRESH_SECRET, now)
           THEN calls' = Step(c, Finish(call, JwtError, "jwt"))
           ELSE /\ CanGenerate
                /\ calls' = [d \in Calls |->
                    IF d = c
                    THEN [call EXCEPT !.pc = "get",
                                      !.userId = token.payload.sub,
                                      !.tokenId = token.payload.jti,
                                      !.overlap = others # {}]
                    ELSE IF d \in others
                    THEN [calls[d] EXCEPT !.overlap = TRUE]
                    ELSE IF Done(d) THEN IdleCall
                    ELSE calls[d]]
    /\ presented' = presented \cup ({token} \cap issued)
    /\ UNCHANGED <<catalogVars, env, loggedIn, resurrected,
                   users, nextUserId, redis, now, ticks, nextUuid, issued,
                   rotated, revoked>>

\* refreshToken: redis.get(`token:${refreshToken}`), JSON.parse, and the
\* comparison of the record's userId with the token's subject.
RefreshGetAndDelete(c) ==
    /\ calls[c].op = "refresh"
    /\ calls[c].pc = "get"
    /\ LET tokenData == RedisGet(redis, TokenKey(calls[c].refreshToken))
       IN  /\ redis' = RedisDel(redis, {TokenKey(calls[c].refreshToken)})
           /\ IF tokenData = <<>>
              THEN calls' = Step(c,
                        Finish([calls[c] EXCEPT !.muts = @ + 1],
                               NotFoundError, "notFound"))
              ELSE IF tokenData[1].userId # calls[c].userId
              THEN calls' = Step(c,
                        Finish([calls[c] EXCEPT !.muts = @ + 1],
                               MismatchError, "mismatch"))
              ELSE calls' = Step(c, [calls[c] EXCEPT !.pc = "findUser",
                                                     !.muts = @ + 1])
    /\ UNCHANGED <<catalogVars, env, loggedIn, resurrected,
                   users, nextUserId, now, ticks, nextUuid, issued,
                   presented, rotated, revoked>>
RefreshGet(c) ==
    /\ calls[c].op = "refresh"
    /\ calls[c].pc = "get"
    /\ LET tokenData == RedisGet(redis, TokenKey(calls[c].refreshToken))
       IN  IF tokenData = <<>>
           THEN calls' = Step(c,
                    Finish(calls[c], NotFoundError, "notFound"))
           ELSE IF tokenData[1].userId # calls[c].userId
           THEN calls' = Step(c,
                    Finish(calls[c], MismatchError, "mismatch"))
           ELSE calls' = Step(c, [calls[c] EXCEPT !.pc = "findUser"])
    /\ UNCHANGED <<catalogVars, env, loggedIn, resurrected,
                   users, nextUserId, redis, now, ticks, nextUuid,
                   issued, presented, rotated, revoked>>

\* refreshToken: prisma.user.findUnique({id: userId}), then generateTokens.
RefreshFindUser(c) ==
    /\ calls[c].op = "refresh"
    /\ calls[c].pc = "findUser"
    /\ IF calls[c].userId \notin DOMAIN users
       THEN /\ calls' = Step(c,
                    Finish(calls[c], UserNotFound, "noUser"))
            /\ UNCHANGED nextUuid
       ELSE /\ LET safeUser == SafeUser(users, calls[c].userId)
               IN  calls' = Step(c,
                        [calls[c] EXCEPT !.pc = "delToken",
                                         !.user = safeUser,
                                         !.gen =
                                     generateTokens(safeUser, nextUuid, now)])
            /\ nextUuid' = nextUuid + 1
    /\ UNCHANGED <<catalogVars, env, loggedIn, resurrected,
                   users, nextUserId, redis, now, ticks, issued,
                   presented, rotated, revoked>>

\* refreshToken: redis.del(`token:${refreshToken}`).
RefreshDelTokenSkipped(c) ==
    /\ calls[c].op = "refresh"
    /\ calls[c].pc = "delToken"
    /\ calls' = Step(c, [calls[c] EXCEPT !.pc = "delSession", !.muts = @ + 1])
    /\ UNCHANGED <<catalogVars, env, loggedIn, resurrected,
                   users, nextUserId, redis, now, ticks, nextUuid,
                   issued, presented, rotated, revoked>>
RefreshDelToken(c) ==
    /\ calls[c].op = "refresh"
    /\ calls[c].pc = "delToken"
    /\ redis' = RedisDel(redis, {TokenKey(calls[c].refreshToken)})
    /\ calls' = Step(c, [calls[c] EXCEPT !.pc = "delSession", !.muts = @ + 1])
    /\ UNCHANGED <<catalogVars, env, loggedIn, resurrected,
                   users, nextUserId, now, ticks, nextUuid, issued,
                   presented, rotated, revoked>>

\* refreshToken: redis.del(`refresh_token:${userId}:${tokenId}`), then the
\* synchronous start of storeRefreshToken (tokenData is built there).
RefreshDelSessionSkipped(c) ==
    /\ calls[c].op = "refresh"
    /\ calls[c].pc = "delSession"
    /\ calls' = Step(c,
            [calls[c] EXCEPT !.pc = "setSession",
                             !.muts = @ + 1,
                             !.tokenData =
                                 TokenData(calls[c].userId,
                                           calls[c].gen.tokenId, now)])
    /\ UNCHANGED <<catalogVars, env, loggedIn, resurrected,
                   users, nextUserId, redis, now, ticks, nextUuid,
                   issued, presented, rotated, revoked>>
RefreshDelSession(c) ==
    /\ calls[c].op = "refresh"
    /\ calls[c].pc = "delSession"
    /\ redis' = RedisDel(redis,
                         {SessionKey(calls[c].userId, calls[c].tokenId)})
    /\ calls' = Step(c,
            [calls[c] EXCEPT !.pc = "setSession",
                             !.muts = @ + 1,
                             !.tokenData =
                                 TokenData(calls[c].userId,
                                           calls[c].gen.tokenId, now)])
    /\ UNCHANGED <<catalogVars, env, loggedIn, resurrected,
                   users, nextUserId, now, ticks, nextUuid, issued,
                   presented, rotated, revoked>>

\* logout: redis.keys(`refresh_token:${userId}:*`); with no key the cookie
\* is cleared and the call returns.
LogoutKeys(c, userId) ==
    /\ CanStart(c)
    /\ userId \in DOMAIN users
    /\ LET keys == RedisKeys(redis, userId)
           call == [IdleCall EXCEPT
                       !.op = "logout", !.userId = userId, !.keys = keys,
                       !.revoking = {t \in issued : t.payload.sub = userId}]
       IN  IF keys = {}
           THEN /\ calls' = Step(c, Finish(ClearCookie(call), Ok, ""))
                /\ revoked' = revoked \cup call.revoking
           ELSE /\ calls' = Step(c, [call EXCEPT !.pc = "del"])
                /\ UNCHANGED revoked
    /\ UNCHANGED <<catalogVars, env, loggedIn, resurrected,
                   users, nextUserId, redis, now, ticks, nextUuid, issued,
                   presented, rotated>>

\* logout: redis.del(keys), then the cookie is cleared.
LogoutDel(c) ==
    /\ calls[c].op = "logout"
    /\ calls[c].pc = "del"
    /\ redis' = RedisDel(redis, calls[c].keys)
    /\ calls' = Step(c,
            Finish(ClearCookie([calls[c] EXCEPT !.muts = @ + 1]), Ok, ""))
    /\ revoked' = revoked \cup calls[c].revoking
    /\ UNCHANGED <<catalogVars, env, loggedIn, resurrected,
                   users, nextUserId, now, ticks, nextUuid, issued,
                   presented, rotated>>

\* DELETE /:id removes a user row; ids are never handed out again.
DeleteUser(userId) ==
    /\ userId \in DOMAIN users
    /\ users' = [id \in DOMAIN users \ {userId} |-> users[id]]
    /\ calls' = Recycle
    /\ UNCHANGED <<catalogVars, env, loggedIn, resurrected,
                   nextUserId, redis, now, ticks, nextUuid,
                   issued, presented, rotated, revoked>>

\* Time passes; redis drops the keys whose time to live has run out.  A
\* request lasts seconds (every store command times out after
\* commandTimeout), the clock moves by days: it moves between requests.
Tick(d) ==
    /\ ticks < MaxTicks
    /\ \A c \in Calls : ~Busy(c)
    /\ now' = now + d
    /\ ticks' = ticks + 1
    /\ redis' = RedisExpire(redis, now')
    /\ calls' = Recycle
    /\ UNCHANGED <<catalogVars, env, loggedIn, resurrected,
                   users, nextUserId, nextUuid, issued,
                   presented, rotated, revoked>>

\* Within the current second, the keys whose time to live ends in it go.
Expire ==
    /\ \E k \in DOMAIN redis : redis[k].expireAt <= now
    /\ redis' = RedisExpireNow(redis, now)
    /\ calls' = Recycle
    /\ UNCHANGED <<catalogVars, env, loggedIn, resurrected,
                   users, nextUserId, now, ticks, nextUuid, issued,
                   presented, rotated, revoked>>

\* ------------------------------------------------ authenticate middleware
\* The access token delivered together with a refresh token.
AccessTokenOf(t) ==
    generateTokens(SafeUser(users, t.payload.sub), t.payload.jti, t.iat).accessToken
IssuedAccessTokens ==
    {AccessTokenOf(t) : t \in {x \in issued : x.payload.sub \in DOMAIN users}}

\* What a client can send as Authorization: Bearer <token>: an access
\* token it was given, a refresh token it was given, a token signed with
\* some other secret.
BearerTokens == IssuedAccessTokens \cup issued \cup {ForgedToken(now)}
Headers ==
    {[present |-> FALSE, token |-> <<>>], [present |-> TRUE, token |-> <<>>]}
        \cup {[present |-> TRUE, token |-> <<t>>] : t \in BearerTokens}

\* req.user = {sub, email, role} of the decoded claims; a claim the token
\* does not carry is undefined.
ReqUser(payload) ==
    [id |-> payload.sub,
     email |-> IF "email" \in DOMAIN payload THEN payload.email ELSE "",
     role |-> IF "role" \in DOMAIN payload THEN payload.role ELSE ""]

\* authenticate: no header passes through; a header without a token and a
\* token jwt.verify rejects are answered 401; otherwise req.user is set and
\* next() is called.
AuthenticateAnyToken(c, header) ==
    /\ CanStart(c)
    /\ LET call == [IdleCall EXCEPT !.op = "authenticate"]
       IN  IF ~header.present
           THEN calls' = Step(c, Finish(call, Ok, "noHeader"))
           ELSE IF header.token = <<>>
           THEN calls' = Step(c, Finish(call, NoTokenProvided, "noToken"))
           ELSE calls' = Step(c,
                    Finish([call EXCEPT !.bearer = header.token[1],
                                        !.user = ReqUser(header.token[1].payload)],
                           Ok, ""))
    /\ UNCHANGED <<catalogVars, env, loggedIn, resurrected, users, nextUserId, redis, now,
                   ticks, nextUuid, issued, presented, rotated, revoked>>
Authenticate(c, header) ==
    /\ CanStart(c)
    /\ LET call == [IdleCall EXCEPT !.op = "authenticate"]
       IN  IF ~header.present
           THEN calls' = Step(c, Finish(call, Ok, "noHeader"))
           ELSE IF header.token = <<>>
           THEN calls' = Step(c, Finish(call, NoTokenProvided, "noToken"))
           ELSE LET token == header.token[1]
                    bearing == [call EXCEPT !.bearer = token]
                IN  IF ~JwtVerify(token, MiddlewareSecret, now)
                    THEN calls' = Step(c, Finish(bearing, InvalidBearer, "jwt"))
                    ELSE calls' = Step(c,
                            Finish([bearing EXCEPT !.user = ReqUser(token.payload)],
                                   Ok, ""))
    /\ UNCHANGED <<catalogVars, env, loggedIn, resurrected, users, nextUserId, redis, now,
                   ticks, nextUuid, issued, presented, rotated, revoked>>

\* ------------------------------------------------- redis command failures
\* A command of the redis client rejects (commandTimeout, connection
\* lost).  A command that timed out may still have been carried out.

\* storeRefreshToken: one of its two SETs rejects; its catch throws
\* 'Failed to store authentication data', which login's catch replaces and
\* the catch of signup and of refreshToken rethrows.
StoreRefreshTokenFailsCookieSet(c, applied) ==
    /\ calls[c].pc \in {"setSession", "setToken"}
    /\ LET key == IF calls[c].pc = "setSession"
                  THEN SessionKey(calls[c].userId, calls[c].gen.tokenId)
                  ELSE TokenKey(calls[c].gen.refreshToken)
           error == IF calls[c].op = "login" THEN AuthenticationFailed
                    ELSE StoreFailed
       IN  /\ redis' = IF applied
                       THEN RedisSet(redis, key, calls[c].tokenData,
                                     REFRESH_TOKEN_EXPIRY, now)
                       ELSE redis
           /\ calls' = Step(c,
                Finish(setRefreshTokenCookie(
                           [calls[c] EXCEPT
                               !.muts = IF applied THEN @ + 1 ELSE @],
                           calls[c].gen.refreshToken),
                       error, "store"))
    /\ UNCHANGED <<catalogVars, env, loggedIn, resurrected,
                   users, nextUserId, now, ticks, nextUuid, issued,
                   presented, rotated, revoked>>
StoreRefreshTokenFails(c, applied) ==
    /\ calls[c].pc \in {"setSession", "setToken"}
    /\ LET key == IF calls[c].pc = "setSession"
                  THEN SessionKey(calls[c].userId, calls[c].gen.tokenId)
                  ELSE TokenKey(calls[c].gen.refreshToken)
           error == IF calls[c].op = "login" THEN AuthenticationFailed
                    ELSE StoreFailed
       IN  /\ redis' = IF applied
                       THEN RedisSet(redis, key, calls[c].tokenData,
                                     REFRESH_TOKEN_EXPIRY, now)
                       ELSE redis
           /\ calls' = Step(c,
                Finish([calls[c] EXCEPT !.muts = IF applied THEN @ + 1 ELSE @],
                       error, "store"))
    /\ UNCHANGED <<catalogVars, env, loggedIn, resurrected,
                   users, nextUserId, now, ticks, nextUuid, issued,
                   presented, rotated, revoked>>

\* refreshToken: its redis.get or one of its two redis.del rejects; the
\* error is neither a JsonWebTokenError nor a GraphQLError.
RefreshRedisFails(c, applied) ==
    /\ calls[c].op = "refresh"
    /\ calls[c].pc \in {"get", "delToken", "delSession"}
    /\ LET keys == IF calls[c].pc = "delToken"
                   THEN {TokenKey(calls[c].refreshToken)}
                   ELSE IF calls[c].pc = "delSession"
                   THEN {SessionKey(calls[c].userId, calls[c].tokenId)}
                   ELSE {}
           sent == applied /\ keys # {}
       IN  /\ redis' = IF sent THEN RedisDel(redis, keys) ELSE redis
           /\ calls' = Step(c,
                Finish([calls[c] EXCEPT !.muts = IF sent THEN @ + 1 ELSE @],
                       AuthenticationError, "store"))
    /\ UNCHANGED <<catalogVars, env, loggedIn, resurrected,
                   users, nextUserId, now, ticks, nextUuid, issued,
                   presented, rotated, revoked>>

\* logout: redis.keys rejects.
LogoutKeysFails(c, userId) ==
    /\ CanStart(c)
    /\ userId \in DOMAIN users
    /\ calls' = Step(c,
            Finish([IdleCall EXCEPT !.op = "logout", !.userId = userId],
                   LogoutFailed, "store"))
    /\ UNCHANGED <<catalogVars, env, loggedIn, resurrected,
                   users, nextUserId, redis, now, ticks, nextUuid, issued,
                   presented, rotated, revoked>>

\* logout: redis.del(keys) rejects; the cookie is not cleared.
LogoutDelFails(c, applied) ==
    /\ calls[c].op = "logout"
    /\ calls[c].pc = "del"
    /\ redis' = IF applied THEN RedisDel(redis, calls[c].keys) ELSE redis
    /\ calls' = Step(c,
            Finish([calls[c] EXCEPT !.muts = IF applied THEN @ + 1 ELSE @],
                   LogoutFailed, "store"))
    /\ UNCHANGED <<catalogVars, env, loggedIn, resurrected,
                   users, nextUserId, now, ticks, nextUuid, issued,
                   presented, rotated, revoked>>

\* --------------------------------------------------- Mutation.refreshToken
\* What the resolver finds in req.cookies.refreshToken: nothing, or what a
\* client can send.
CookieTokens == Presentable \cup {NoToken}

\* Mutation.refreshToken: without a cookie it throws 'Refresh token not
\* found'; otherwise it calls authService.refreshToken(refreshToken) and
\* passes no response object.  The call runs up to jwt.verify.
ResolverRefreshToken(c, token) ==
    /\ CanStart(c)
    /\ LET call == [IdleCall EXCEPT !.op = "refresh",
                                    !.res = FALSE,
                                    !.refreshToken = token,
                                    !.fresh = token \in issued \ presented,
                                    !.replay = token \in rotated,
                                    !.afterLogout = token \in revoked]
           others == {d \in Calls \ {c} :
                         /\ Busy(d)
                         /\ calls[d].op = "refresh"
                         /\ calls[d].refreshToken = token}
       IN  IF token = NoToken
           THEN calls' = Step(c, Finish(call, RefreshTokenMissing, "noCookie"))
           ELSE IF ~JwtVerify(token, REFRESH_SECRET, now)
           THEN calls' = Step(c, Finish(call, JwtError, "jwt"))
           ELSE /\ CanGenerate
                /\ calls' = [d \in Calls |->
                    IF d = c
                    THEN [call EXCEPT !.pc = "get",
                                      !.userId = token.payload.sub,
                                      !.tokenId = token.payload.jti,
                                      !.overlap = others # {}]
                    ELSE IF d \in others
                    THEN [calls[d] EXCEPT !.overlap = TRUE]
                    ELSE IF Done(d) THEN IdleCall
                    ELSE calls[d]]
    /\ presented' = presented \cup ({token} \cap issued)
    /\ UNCHANGED <<catalogVars, env, loggedIn, resurrected,
                   users, nextUserId, redis, now, ticks, nextUuid, issued,
                   rotated, revoked>>

\* storeRefreshToken, second SET, in a call that was given no response
\* object: setRefreshTokenCookie(undefined, newRefreshToken) throws a
\* TypeError at res.cookie, and the catch of refreshToken, finding neither
\* a JsonWebTokenError nor a GraphQLError, throws 'Authentication error'.
\* No cookie is set and no token is returned.
SetCookieThrows(c) ==
    /\ calls[c].pc = "setToken"
    /\ ~calls[c].res
    /\ redis' = RedisSet(redis, TokenKey(calls[c].gen.refreshToken),
                         calls[c].tokenData, REFRESH_TOKEN_EXPIRY, now)
    /\ calls' = Step(c,
            Finish([calls[c] EXCEPT !.muts = @ + 1],
                   AuthenticationError, "res"))
    /\ rotated' = rotated \cup {calls[c].refreshToken}
    /\ UNCHANGED <<catalogVars, env, loggedIn, resurrected,
                   users, nextUserId, now, ticks, nextUuid, issued,
                   presented, revoked>>

\* ------------------------------------------- AuthService, the first variant
\* The earlier AuthService of the same file: one key refresh_token:{userId}
\* per user holding the refresh token itself, no session id, no rotation.
LegacyKey(userId) == <<"refresh_token", userId>>

\* generateTokens of the first variant: no jti.
LegacyGenerateTokens(user, t) ==
    [accessToken |->
        JwtSign([email |-> user.email, sub |-> user.id],
                JWT_SECRET, ACCESS_TOKEN_EXPIRY, t),
     refreshToken |->
        JwtSign([sub |-> user.id], REFRESH_SECRET, REFRESH_TOKEN_EXPIRY, t),
     tokenId |-> 0]

\* What login and refreshToken of the first variant return:
\* {access_token, user} and {access_token}.
LegacyResponse(gen) ==
    [accessToken |-> gen.accessToken, refreshToken |-> NoToken]

\* catch (error) { throw new GraphQLError('Invalid refresh token', ...) }:
\* whatever was thrown inside the try block leaves as this one error.
LegacyCatch(error) == Error("Invalid refresh token", "UNAUTHORIZED")

\* The state the first variant starts from: user 1 exists, nothing stored.
InitLegacy ==
    /\ env = NoEnv
    /\ loggedIn = {}
    /\ resurrected = {}
    /\ users = SeedUsers
    /\ nextUserId = 2
    /\ redis = <<>>
    /\ now = 0
    /\ ticks = 0
    /\ nextUuid = 2
    /\ calls = [c \in Calls |-> IdleCall]
    /\ issued = {}
    /\ presented = {}
    /\ rotated = {}
    /\ revoked = {}
    /\ InitCatalog

\* validateUser, then login up to the await of storeRefreshToken.
LegacyLogin(c, email, password) ==
    /\ CanStart(c)
    /\ LET v == validateUser(users, email, password)
           call == [IdleCall EXCEPT !.op = "legacyLogin"]
       IN  IF v = <<>>
           THEN calls' = Step(c, Finish(call, InvalidCredentials, "credentials"))
           ELSE calls' = Step(c,
                    [call EXCEPT !.pc = "legacySet",
                                 !.userId = v[1].id,
                                 !.user = v[1],
                                 !.gen = LegacyGenerateTokens(v[1], now)])
    /\ UNCHANGED <<catalogVars, env, loggedIn, resurrected,
                   users, nextUserId, redis, now, ticks, nextUuid, issued,
                   presented, rotated, revoked>>

\* storeRefreshToken: SET refresh_token:{userId}; then the cookie and the
\* return of login.
LegacyStoreRefreshToken(c) ==
    /\ calls[c].pc = "legacySet"
    /\ redis' = RedisSet(redis, LegacyKey(calls[c].userId),
                         calls[c].gen.refreshToken, REFRESH_TOKEN_EXPIRY, now)
    /\ calls' = Step(c,
            Finish(setRefreshTokenCookie(
                       [calls[c] EXCEPT !.muts = @ + 1,
                                        !.body = LegacyResponse(calls[c].gen)],
                       calls[c].gen.refreshToken),
                   Ok, ""))
    /\ issued' = issued \cup {calls[c].gen.refreshToken}
    /\ UNCHANGED <<catalogVars, env, loggedIn, resurrected,
                   users, nextUserId, now, ticks, nextUuid,
                   presented, rotated, revoked>>

\* refreshToken of the first variant: jwt.verify.
LegacyRefreshVerify(c, token) ==
    /\ CanStart(c)
    /\ LET call == [IdleCall EXCEPT !.op = "legacyRefresh",
                                    !.refreshToken = token]
       IN  IF ~JwtVerify(token, REFRESH_SECRET, now)
           THEN calls' = Step(c, Finish(call, LegacyCatch(JwtError), "jwt"))
           ELSE calls' = Step(c, [call EXCEPT !.pc = "legacyGet",
                                              !.userId = token.payload.sub])
    /\ presented' = presented \cup ({token} \cap issued)
    /\ UNCHANGED <<catalogVars, env, loggedIn, resurrected,
                   users, nextUserId, redis, now, ticks, nextUuid, issued,
                   rotated, revoked>>

\* redis.get(`refresh_token:${decoded.sub}`) and its comparison with the
\* token presented.
LegacyRefreshGet(c) ==
    /\ calls[c].pc = "legacyGet"
    /\ LET storedToken == RedisGet(redis, LegacyKey(calls[c].userId))
       IN  IF storedToken = <<>> \/ storedToken # <<calls[c].refreshToken>>
           THEN calls' = Step(c,
                    Finish(calls[c], LegacyCatch(NotFoundError), "notFound"))
           ELSE calls' = Step(c, [calls[c] EXCEPT !.pc = "legacyFindUser"])
    /\ UNCHANGED <<catalogVars, env, loggedIn, resurrected,
                   users, nextUserId, redis, now, ticks, nextUuid,
                   issued, presented, rotated, revoked>>

\* prisma.user.findUnique; 'User not found' is thrown inside the try block;
\* otherwise a new access token is signed and returned.
LegacyRefreshFindUser(c) ==
    /\ calls[c].pc = "legacyFindUser"
    /\ IF calls[c].userId \notin DOMAIN users
       THEN calls' = Step(c,
                Finish(calls[c], LegacyCatch(UserNotFound), "noUser"))
       ELSE LET user == SafeUser(users, calls[c].userId)
            IN  calls' = Step(c,
                    Finish([calls[c] EXCEPT
                               !.user = user,
                               !.body = LegacyResponse(
                                            LegacyGenerateTokens(user, now))],
                           Ok, ""))
    /\ UNCHANGED <<catalogVars, env, loggedIn, resurrected,
                   users, nextUserId, redis, now, ticks, nextUuid,
                   issued, presented, rotated, revoked>>

\* logout of the first variant: DEL refresh_token:{userId}, cookie cleared.
LegacyLogout(c, userId) ==
    /\ CanStart(c)
    /\ redis' = RedisDel(redis, {LegacyKey(userId)})
    /\ calls' = Step(c,
            Finish(ClearCookie([IdleCall EXCEPT !.op = "legacyLogout",
                                                !.userId = userId,
                                                !.muts = 1]),
                   Ok, ""))
    /\ UNCHANGED <<catalogVars, env, loggedIn, resurrected,
                   users, nextUserId, now, ticks, nextUuid, issued,
                   presented, rotated, revoked>>

\* The requests of users that exist: login, refreshToken, logout.
Sessions ==
    \/ \E c \in Calls, email \in Emails, password \in Passwords :
           Login(c, email, password)
    \/ \E c \in Calls : StoreRefreshTokenById(c)
    \/ \E c \in Calls : StoreRefreshTokenByValue(c)
    \/ \E c \in Calls, token \in Presentable : RefreshVerify(c, token)
    \/ \E c \in Calls : RefreshGet(c)
    \/ \E c \in Calls : RefreshFindUser(c)
    \/ \E c \in Calls : RefreshDelToken(c)
    \/ \E c \in Calls : RefreshDelSession(c)
    \/ \E c \in Calls, userId \in DOMAIN users : LogoutKeys(c, userId)
    \/ \E c \in Calls : LogoutDel(c)

Next ==
    \/ Sessions
    \/ \E c \in Calls, email \in Emails, password \in Passwords :
           Signup(c, email, password)

\* The service alone.
Spec == Init /\ [][Next]_vars

\* The service while time passes.
NextClock ==
    \/ Next
    \/ \E d \in TickSteps : Tick(d)
    \/ Expire
SpecClock == Init /\ [][NextClock]_vars

\* The service while user rows are removed.
NextUsers ==
    \/ Next
    \/ \E userId \in DOMAIN users : DeleteUser(userId)
SpecUsers == Init /\ [][NextUsers]_vars

\* The sessions of the users that exist while commands of the redis
\* client fail.
NextFaults ==
    \/ Sessions
    \/ \E c \in Calls, applied \in BOOLEAN : StoreRefreshTokenFails(c, applied)
    \/ \E c \in Calls, applied \in BOOLEAN : RefreshRedisFails(c, applied)
    \/ \E c \in Calls, userId \in DOMAIN users : LogoutKeysFails(c, userId)
    \/ \E c \in Calls, applied \in BOOLEAN : LogoutDelFails(c, applied)
SpecFaults == Init /\ [][NextFaults]_vars

\* The sessions behind the authenticate middleware, in any environment;
\* a client may also send an access token where a refresh token belongs.
NextAuth ==
    \/ Sessions
    \/ \E c \in Calls, header \in Headers : Authenticate(c, header)
    \/ \E c \in Calls, token \in IssuedAccessTokens : RefreshVerify(c, token)
SpecAuth == InitEnv /\ [][NextAuth]_vars

\* The first variant of the service while user rows are removed.
\* The service called with a response object, and through the resolver.
NextResolver ==
    \/ Sessions
    \/ \E c \in Calls, token \in CookieTokens : ResolverRefreshToken(c, token)
    \/ \E c \in Calls : SetCookieThrows(c)
SpecResolver == Init /\ [][NextResolver]_vars

\* Signups and refreshes with a store whose SET can fail.
NextSignup ==
    \/ \E c \in Calls, email \in Emails, password \in Passwords :
           Signup(c, email, password)
    \/ \E c \in Calls : StoreRefreshTokenById(c)
    \/ \E c \in Calls : StoreRefreshTokenByValue(c)
    \/ \E c \in Calls, applied \in BOOLEAN : StoreRefreshTokenFails(c, applied)
    \/ \E c \in Calls, token \in Presentable : RefreshVerify(c, token)
    \/ \E c \in Calls : RefreshGet(c)
    \/ \E c \in Calls : RefreshFindUser(c)
    \/ \E c \in Calls : RefreshDelToken(c)
    \/ \E c \in Calls : RefreshDelSession(c)
SpecSignup == Init /\ [][NextSignup]_vars

NextLegacy ==
    \/ \E c \in Calls, email \in Emails, password \in Passwords :
           LegacyLogin(c, email, password)
    \/ \E c \in Calls : LegacyStoreRefreshToken(c)
    \/ \E c \in Calls, token \in issued \cup {ForgedToken(now)} :
           LegacyRefreshVerify(c, token)
    \/ \E c \in Calls : LegacyRefreshGet(c)
    \/ \E c \in Calls : LegacyRefreshFindUser(c)
    \/ \E c \in Calls, userId \in DOMAIN users : LegacyLogout(c, userId)
    \/ \E userId \in DOMAIN users : DeleteUser(userId)
SpecLegacy == InitLegacy /\ [][NextLegacy]_vars

\* ---------------------------------------- BoilerplateService and GitService
\* A name is a sequence of characters, a path a sequence of names; "" is
\* the empty sequence.
SafeChars == {"a", "b", "-", "_"}
Titles == {<<>>, <<"a">>, <<"a", " ">>}
AuthorIds == {<<"u">>}
Categories == {<<>>, <<"w">>, <<"u">>}
\* process.env.BOILERPLATE_BASE_DIR || ""
BaseDirs == {<<>>, << <<"s">> >>}
\* The archive: none given, a zip with files, a zip without entries, a file
\* that is no zip.
Zips == {"none", "good", "empty", "corrupt"}

\* title.replace(/[^a-zA-Z0-9-_]/g, "-")
Sanitize(title) ==
    [i \in DOMAIN title |-> IF title[i] \in SafeChars THEN title[i] ELSE "-"]

\* path.join(dir, ...names): empty segments are dropped.
PathJoin(dir, names) == dir \o SelectSeq(names, LAMBDA n : n # <<>>)

\* new GitService(): basePath is "".
GitBasePath == <<>>
GetFullPath(relativePath) ==
    IF GitBasePath # <<>> THEN PathJoin(GitBasePath, relativePath)
    ELSE relativePath

NoDir == [files |-> FALSE, repo |-> FALSE, staged |-> FALSE]
\* fs.mkdir(path, {recursive: true})
Mkdir(fs, path) ==
    IF path \in DOMAIN fs THEN fs
    ELSE [q \in DOMAIN fs \cup {path} |-> IF q = path THEN NoDir ELSE fs[q]]
\* fs.rm(path, {recursive: true, force: true})
Rm(fs, path) == [q \in DOMAIN fs \ {path} |-> fs[q]]

JobFree == job.pc \in {"idle", "done"}
Throw(call, message) ==
    [call EXCEPT !.pc = "done", !.status = "error", !.error = message]
Caught(call, message) == [call EXCEPT !.pc = "rollback", !.error = message]

\* createBoilerplate up to its first await after prisma.boilerplate.create:
\* the required fields, the sanitized title, repoPath, the base directory
\* check and the database record.
CreateBoilerplate(title, authorId, category, zip) ==
    /\ JobFree
    /\ LET sanitizedTitle == Sanitize(title)
           call == [IdleJob EXCEPT
                       !.base = job.base,
                       !.title = sanitizedTitle,
                       !.authorId = authorId,
                       !.category = category,
                       !.zip = zip,
                       !.repoPath =
                           PathJoin(job.base, <<authorId, sanitizedTitle>>)]
       IN  IF title = <<>> \/ authorId = <<>> \/ category = <<>>
           THEN /\ job' = Throw(call, "Missing required fields")
                /\ UNCHANGED <<boilerplates, nextBoilerplateId>>
           ELSE IF job.base = <<>>
           \* thrown inside the try; the cleanup throws 'BASE_DIR not set'
           THEN /\ job' = Throw(call, "Base directory not configured")
                /\ UNCHANGED <<boilerplates, nextBoilerplateId>>
           ELSE /\ nextBoilerplateId <= MaxBoilerplates
                /\ boilerplates' =
                       [id \in DOMAIN boilerplates \cup {nextBoilerplateId} |->
                           IF id = nextBoilerplateId
                           THEN [title |-> sanitizedTitle,
                                 authorId |-> authorId,
                                 repositoryUrl |-> NoPath,
                                 stars |-> 0]
                           ELSE boilerplates[id]]
                /\ nextBoilerplateId' = nextBoilerplateId + 1
                /\ job' = [call EXCEPT
                              !.id = nextBoilerplateId,
                              !.pc = IF zip # "none" THEN "zipMkdir"
                                     ELSE "initRepo"]
    /\ UNCHANGED <<authVars, likeVars, pageVars, disk>>

\* processUploadedZip: repoPath = category/name, fs.mkdir(fullPath).
ZipMkdir ==
    /\ job.pc = "zipMkdir"
    /\ LET fullPath ==
               GetFullPath(PathJoin(<<>>, <<job.category, job.title>>))
       IN  /\ disk' = Mkdir(disk, fullPath)
           /\ job' = [job EXCEPT
                         !.pc = "zipCopy",
                         !.fullPath = fullPath,
                         !.made = IF fullPath \in DOMAIN disk THEN @
                                  ELSE @ \cup {fullPath}]
    /\ UNCHANGED <<authVars, likeVars, pageVars, boilerplates, nextBoilerplateId>>

\* processUploadedZip: extractAllTo(tempDir) and _copyDir(tempDir, fullPath).
\* A throw is caught, success: false is returned and createBoilerplate
\* throws 'Failed to process zip file'.
ZipCopy(ok) ==
    /\ job.pc = "zipCopy"
    /\ IF job.zip = "corrupt" \/ ~ok
       THEN /\ job' = Caught([job EXCEPT !.processResult =
                                 [NoGitResult EXCEPT
                                     !.message = "Failed to process zip file"]],
                             "Failed to process zip file")
            /\ UNCHANGED disk
       ELSE /\ disk' = [disk EXCEPT ![job.fullPath].files =
                                       @ \/ job.zip = "good"]
            /\ job' = [job EXCEPT !.pc = "isGitRepo"]
    /\ UNCHANGED <<authVars, likeVars, pageVars, boilerplates, nextBoilerplateId>>

\* processUploadedZip: isGitRepo(repoPath).
ZipIsGitRepo ==
    /\ job.pc = "isGitRepo"
    /\ job' = [job EXCEPT !.isRepo = disk[job.fullPath].repo,
                          !.pc = IF disk[job.fullPath].repo THEN "addAllFiles"
                                 ELSE "zipInitRepo"]
    /\ UNCHANGED <<authVars, likeVars, pageVars, boilerplates, nextBoilerplateId, disk>>

\* processUploadedZip: await this.initRepo(repoPath); the GitResult it
\* returns is not looked at.
ZipInitRepo(ok) ==
    /\ job.pc = "zipInitRepo"
    /\ disk' = IF ok THEN [disk EXCEPT ![job.fullPath].repo = TRUE] ELSE disk
    /\ job' = [job EXCEPT !.pc = "addAllFiles"]
    /\ UNCHANGED <<authVars, likeVars, pageVars, boilerplates, nextBoilerplateId>>

\* processUploadedZip: await this.addAllFiles(repoPath), `git add .`; the
\* GitResult it returns is not looked at.
ZipAddAllFiles(ok) ==
    /\ job.pc = "addAllFiles"
    /\ disk' = IF ok /\ disk[job.fullPath].repo
               THEN [disk EXCEPT ![job.fullPath].staged =
                                     @ \/ disk[job.fullPath].files]
               ELSE disk
    /\ job' = [job EXCEPT !.pc = "commitChanges"]
    /\ UNCHANGED <<authVars, likeVars, pageVars, boilerplates, nextBoilerplateId>>

\* processUploadedZip: await this.commitChanges(...), `git commit`, which
\* fails outside a repository and with nothing staged; the GitResult is
\* not looked at.  Then tempDir is removed and success: true is returned.
ZipCommitChanges(ok) ==
    /\ job.pc = "commitChanges"
    /\ LET done == /\ ok
                   /\ disk[job.fullPath].repo
                   /\ disk[job.fullPath].staged
       IN  /\ disk' = IF done
                      THEN [disk EXCEPT ![job.fullPath].staged = FALSE]
                      ELSE disk
           /\ job' = [job EXCEPT
                         !.pc = "processed",
                         !.committed = done,
                         !.processResult =
                             [success |-> TRUE,
                              message |-> "Boilerplate uploaded and committed",
                              path |-> PathJoin(<<>>, <<job.category,
                                                        job.title>>)]]
    /\ UNCHANGED <<authVars, likeVars, pageVars, boilerplates, nextBoilerplateId>>

\* createBoilerplate: prisma.boilerplate.update({repositoryUrl:
\* processResult.path}), then return result.
CreateUpdatePath(ok) ==
    /\ job.pc = "processed"
    /\ job.processResult.success
    /\ IF ok
       THEN /\ boilerplates' = [boilerplates EXCEPT
                                  ![job.id].repositoryUrl =
                                      job.processResult.path]
            /\ job' = [job EXCEPT !.pc = "done", !.status = "ok"]
       ELSE /\ job' = Caught(job, "update failed")
            /\ UNCHANGED boilerplates
    /\ UNCHANGED <<authVars, likeVars, pageVars, nextBoilerplateId, disk>>

\* createBoilerplate without a zip file: gitService.initRepo(repoPath),
\* fs.mkdir and `git init`; success: false throws 'Failed to init repo'.
CreateInitRepo(ok) ==
    /\ job.pc = "initRepo"
    /\ LET fullPath == GetFullPath(job.repoPath)
           made == IF fullPath \in DOMAIN disk THEN job.made
                   ELSE job.made \cup {fullPath}
       IN  IF ok
           THEN /\ disk' = [Mkdir(disk, fullPath) EXCEPT ![fullPath].repo = TRUE]
                /\ job' = [job EXCEPT !.pc = "done", !.status = "ok",
                                      !.fullPath = fullPath, !.made = made]
           ELSE /\ disk' = Mkdir(disk, fullPath)
                /\ job' = Caught([job EXCEPT !.fullPath = fullPath,
                                             !.made = made],
                                 "Failed to init repo")
    /\ UNCHANGED <<authVars, likeVars, pageVars, boilerplates, nextBoilerplateId>>

\* createBoilerplate, the catch: fs.rm(repoPath), prisma.boilerplate.delete
\* of the record it created, and the error is thrown again.
CreateRollback ==
    /\ job.pc = "rollback"
    /\ disk' = Rm(disk, job.repoPath)
    /\ boilerplates' = [id \in DOMAIN boilerplates \ {job.id} |->
                           boilerplates[id]]
    /\ job' = [job EXCEPT !.pc = "done", !.status = "error"]
    /\ UNCHANGED <<authVars, likeVars, pageVars, nextBoilerplateId>>

\* The service started with any BOILERPLATE_BASE_DIR, nobody signed in.
InitCreate ==
    /\ env = NoEnv
    /\ users = SeedUsers
    /\ nextUserId = 2
    /\ redis = <<>>
    /\ now = 0
    /\ ticks = 0
    /\ nextUuid = 2
    /\ calls = [c \in Calls |-> IdleCall]
    /\ issued = {}
    /\ presented = {}
    /\ rotated = {}
    /\ revoked = {}
    /\ loggedIn = {}
    /\ resurrected = {}
    /\ boilerplates = <<>>
    /\ nextBoilerplateId = 1
    /\ disk = <<>>
    /\ job \in {[IdleJob EXCEPT !.base = base] : base \in BaseDirs}
    /\ likes = <<>>
    /\ reactions = IdleReactions
    /\ pager = IdlePager

NextCreate ==
    \/ \E title \in Titles, authorId \in AuthorIds,
          category \in Categories, zip \in Zips :
           CreateBoilerplate(title, authorId, category, zip)
    \/ ZipMkdir
    \/ \E ok \in BOOLEAN : ZipCopy(ok)
    \/ ZipIsGitRepo
    \/ \E ok \in BOOLEAN : ZipInitRepo(ok)
    \/ \E ok \in BOOLEAN : ZipAddAllFiles(ok)
    \/ \E ok \in BOOLEAN : ZipCommitChanges(ok)
    \/ \E ok \in BOOLEAN : CreateUpdatePath(ok)
    \/ \E ok \in BOOLEAN : CreateInitRepo(ok)
    \/ CreateRollback
SpecCreate == InitCreate /\ [][NextCreate]_vars

\* ------------------------------------------- likeBoilerplate, unlikeBoilerplate
\* The users that like and the ids they name: boilerplate 1 exists,
\* boilerplate 2 does not.
LikeUsers == {1, 2}
LikeTargets == {1, 2}
SeedBoilerplates ==
    [id \in {1} |->
        [title |-> <<"a">>, authorId |-> <<"u">>, repositoryUrl |-> NoPath,
         stars |-> 0]]

\* The userLikes rows of a (userId, boilerplateId) pair.
LikeRows(pair) == IF pair \in DOMAIN likes THEN likes[pair] ELSE 0
\* prisma.userLikes.findUnique({where: {userId_boilerplateId}})
FindLike(pair) == LikeRows(pair) > 0
SetRows(pair, n) ==
    [q \in (DOMAIN likes \cup {pair}) \ (IF n = 0 THEN {pair} ELSE {}) |->
        IF q = pair THEN n ELSE likes[q]]
AddStars(id, d) == [boilerplates EXCEPT ![id].stars = @ + d]

ReactionPair(c) == <<reactions[c].userId, reactions[c].boilerplateId>>
ReactionFree(c) == reactions[c].pc \in {"idle", "done"}
ReactionThrow(call, message) ==
    [call EXCEPT !.pc = "done", !.status = "error", !.error = message]
ReactionReturn(call) == [call EXCEPT !.pc = "done", !.status = "ok"]

\* likeBoilerplate up to the transaction: findUnique, and the throw when
\* the like exists.
LikeBoilerplate(c, boilerplateId, userId) ==
    /\ ReactionFree(c)
    /\ LET call == [IdleReaction EXCEPT !.op = "like", !.userId = userId,
                                        !.boilerplateId = boilerplateId]
       IN  reactions' = [reactions EXCEPT ![c] =
               IF FindLike(<<userId, boilerplateId>>)
               THEN ReactionThrow(call,
                                  "User has already liked this boilerplate")
               ELSE [call EXCEPT !.pc = "transaction"]]
    /\ UNCHANGED <<authVars, createVars, pageVars, boilerplates, likes>>

\* likeBoilerplate: $transaction([userLikes.create, boilerplate.update
\* stars increment]), then the row is read and returned.  The create fails
\* on the unique (userId, boilerplateId) and on a boilerplate that does
\* not exist, and a failed transaction changes nothing.
LikeTransactionUnchecked(c) ==
    /\ reactions[c].op = "like"
    /\ reactions[c].pc = "transaction"
    /\ IF reactions[c].boilerplateId \notin DOMAIN boilerplates
       THEN /\ reactions' = [reactions EXCEPT ![c] =
                                ReactionThrow(@, "P2003")]
            /\ UNCHANGED <<likes, boilerplates>>
       ELSE /\ likes' = SetRows(ReactionPair(c), LikeRows(ReactionPair(c)) + 1)
            /\ boilerplates' = AddStars(reactions[c].boilerplateId, 1)
            /\ reactions' = [reactions EXCEPT ![c] = ReactionReturn(@)]
    /\ UNCHANGED <<authVars, createVars, pageVars>>
LikeTransaction(c) ==
    /\ reactions[c].op = "like"
    /\ reactions[c].pc = "transaction"
    /\ IF FindLike(ReactionPair(c))
       THEN /\ reactions' = [reactions EXCEPT ![c] =
                                ReactionThrow(@, "P2002")]
            /\ UNCHANGED <<likes, boilerplates>>
       ELSE IF reactions[c].boilerplateId \notin DOMAIN boilerplates
       THEN /\ reactions' = [reactions EXCEPT ![c] =
                                ReactionThrow(@, "P2003")]
            /\ UNCHANGED <<likes, boilerplates>>
       ELSE /\ likes' = SetRows(ReactionPair(c), 1)
            /\ boilerplates' = AddStars(reactions[c].boilerplateId, 1)
            /\ reactions' = [reactions EXCEPT ![c] = ReactionReturn(@)]
    /\ UNCHANGED <<authVars, createVars, pageVars>>

\* unlikeBoilerplate up to the transaction: findUnique, and the throw when
\* there is no like.
UnlikeBoilerplate(c, boilerplateId, userId) ==
    /\ ReactionFree(c)
    /\ LET call == [IdleReaction EXCEPT !.op = "unlike", !.userId = userId,
                                        !.boilerplateId = boilerplateId]
       IN  reactions' = [reactions EXCEPT ![c] =
               IF ~FindLike(<<userId, boilerplateId>>)
               THEN ReactionThrow(call, "User has not liked this boilerplate")
               ELSE [call EXCEPT !.pc = "transaction"]]
    /\ UNCHANGED <<authVars, createVars, pageVars, boilerplates, likes>>

\* unlikeBoilerplate: $transaction([userLikes.delete, boilerplate.update
\* stars decrement]); the delete fails when the row is gone.
UnlikeTransaction(c) ==
    /\ reactions[c].op = "unlike"
    /\ reactions[c].pc = "transaction"
    /\ IF ~FindLike(ReactionPair(c))
       THEN /\ reactions' = [reactions EXCEPT ![c] =
                                ReactionThrow(@, "P2025")]
            /\ UNCHANGED <<likes, boilerplates>>
       ELSE /\ likes' = SetRows(ReactionPair(c), 0)
            /\ boilerplates' = AddStars(reactions[c].boilerplateId, -1)
            /\ reactions' = [reactions EXCEPT ![c] = ReactionReturn(@)]
    /\ UNCHANGED <<authVars, createVars, pageVars>>

\* One boilerplate with no like, nobody signed in, nothing in flight.
InitLikes ==
    /\ env = NoEnv
    /\ users = SeedUsers
    /\ nextUserId = 2
    /\ redis = <<>>
    /\ now = 0
    /\ ticks = 0
    /\ nextUuid = 2
    /\ calls = [c \in Calls |-> IdleCall]
    /\ issued = {}
    /\ presented = {}
    /\ rotated = {}
    /\ revoked = {}
    /\ loggedIn = {}
    /\ resurrected = {}
    /\ boilerplates = SeedBoilerplates
    /\ nextBoilerplateId = 2
    /\ disk = <<>>
    /\ job = IdleJob
    /\ likes = <<>>
    /\ reactions = IdleReactions
    /\ pager = IdlePager

NextLikes ==
    \/ \E c \in Calls, boilerplateId \in LikeTargets, userId \in LikeUsers :
           LikeBoilerplate(c, boilerplateId, userId)
    \/ \E c \in Calls : LikeTransaction(c)
    \/ \E c \in Calls, boilerplateId \in LikeTargets, userId \in LikeUsers :
           UnlikeBoilerplate(c, boilerplateId, userId)
    \/ \E c \in Calls : UnlikeTransaction(c)
SpecLikes == InitLikes /\ [][NextLikes]_vars

\* ------------------------------------------------- the boilerplates query
\* A string is the sequence of its bytes: "1", "2", "10".
PageIds == {<<49>>, <<50>>, <<49, 48>>}
FirstValues == {1, 2}
\* orderBy: not given (createdAt desc), or one column with a direction.
NoOrderBy == [column |-> "", direction |-> ""]
OrderBys ==
    {NoOrderBy} \cup [column : {"createdAt", "stars"},
                      direction : {"asc", "desc"}]
\* where: not given, or a language.
Wheres == {"", "ts"}
\* The rows of the table: every id, created at distinct times, with
\* distinct stars.
Permutations3 ==
    {q \in [PageIds -> 1..3] : \A a, b \in PageIds : q[a] = q[b] => a = b}
PageTables ==
    {{[id |-> id, createdAt |-> created[id], stars |-> stars[id],
       language |-> IF id = <<50>> THEN "js" ELSE "ts"] : id \in PageIds} :
        created \in Permutations3, stars \in Permutations3}

\* Buffer.from(id.toString()).toString("base64"): the base64 digits
\* 0..63 of the bytes, 64 for the padding "=".
RECURSIVE encodeCursor(_)
encodeCursor(id) ==
    IF Len(id) = 0 THEN <<>>
    ELSE IF Len(id) = 1
    THEN <<id[1] \div 4, (id[1] % 4) * 16, 64, 64>>
    ELSE IF Len(id) = 2
    THEN <<id[1] \div 4, (id[1] % 4) * 16 + id[2] \div 16,
           (id[2] % 16) * 4, 64>>
    ELSE <<id[1] \div 4, (id[1] % 4) * 16 + id[2] \div 16,
           (id[2] % 16) * 4 + id[3] \div 64, id[3] % 64>>
         \o encodeCursor(SubSeq(id, 4, Len(id)))

\* Buffer.from(cursor, "base64").toString("utf-8")
RECURSIVE decodeCursor(_)
decodeCursor(cursor) ==
    IF Len(cursor) < 4 THEN <<>>
    ELSE LET b1 == cursor[1] * 4 + cursor[2] \div 16
             b2 == (cursor[2] % 16) * 16 + cursor[3] \div 4
             b3 == (cursor[3] % 4) * 64 + cursor[4]
         IN  IF cursor[3] = 64 THEN <<b1>>
             ELSE IF cursor[4] = 64 THEN <<b1, b2>>
             ELSE <<b1, b2, b3>> \o decodeCursor(SubSeq(cursor, 5, Len(cursor)))

\* The comparison of two strings in the database: byte by byte, a proper
\* prefix first.
RECURSIVE StringGt(_, _)
StringGt(a, b) ==
    IF Len(a) = 0 THEN FALSE
    ELSE IF Len(b) = 0 THEN TRUE
    ELSE IF a[1] # b[1] THEN a[1] > b[1]
    ELSE StringGt(Tail(a), Tail(b))

\* findMany's orderBy: the rows by one column, ascending or descending.
RECURSIVE OrderRows(_, _)
OrderRows(rows, orderBy) ==
    IF rows = {} THEN <<>>
    ELSE LET key(r) == IF orderBy.column = "stars" THEN r.stars
                       ELSE r.createdAt
             head == CHOOSE r \in rows : \A o \in rows :
                        IF orderBy.direction = "asc" THEN key(r) <= key(o)
                        ELSE key(r) >= key(o)
         IN  <<head>> \o OrderRows(rows \ {head}, orderBy)

Take(rows, n) == SubSeq(rows, 1, IF Len(rows) < n THEN Len(rows) ELSE n)

\* The rows a where argument selects.
WhereRows(table, where) ==
    {r \in table : where = "" \/ r.language = where}

\* findBoilerplatesWithCursor({first, afterId, where, orderBy}): the where
\* conditions, id > afterId when afterId is given, orderBy or createdAt
\* desc, take first.
findBoilerplatesWithCursor(table, first, afterId, where, orderBy) ==
    LET rows == {r \in WhereRows(table, where) :
                    afterId = <<>> \/ StringGt(r.id, afterId)}
        orderByCondition ==
            IF orderBy = NoOrderBy
            THEN [column |-> "createdAt", direction |-> "desc"]
            ELSE orderBy
    IN  Take(OrderRows(rows, orderByCondition), first)

\* The boilerplates query: first + 1 rows are fetched, the page is the
\* first `first` of them, endCursor the encoded id of the last node
\* (null, the empty string here, for an empty page).
BoilerplatesPage(table, first, after, where, orderBy) ==
    LET afterId == IF after # <<>> THEN decodeCursor(after) ELSE <<>>
        found == findBoilerplatesWithCursor(table, first + 1, afterId,
                                            where, orderBy)
        hasNextPage == Len(found) > first
        nodes == IF hasNextPage THEN SubSeq(found, 1, first) ELSE found
        edges == [i \in DOMAIN nodes |->
                     [node |-> nodes[i], cursor |-> encodeCursor(nodes[i].id)]]
    IN  [edges |-> edges,
         hasNextPage |-> hasNextPage,
         endCursor |-> IF Len(edges) > 0 THEN edges[Len(edges)].cursor
                       ELSE <<>>]

\* A client asks for the next page with the endCursor of the last one,
\* until hasNextPage is false.
Boilerplates ==
    /\ pager.pc = "paging"
    /\ LET page == BoilerplatesPage(pager.table, pager.first, pager.after,
                                    pager.where, pager.orderBy)
       IN  pager' = [pager EXCEPT
                        !.pc = IF page.hasNextPage THEN "paging" ELSE "done",
                        !.after = page.endCursor,
                        !.pages = @ + 1,
                        !.seen = @ \o [i \in DOMAIN page.edges |->
                                          page.edges[i].node.id]]
    /\ UNCHANGED <<authVars, createVars, likeVars, boilerplates>>

\* Any table, any arguments, no page fetched yet.
InitPages ==
    /\ env = NoEnv
    /\ users = SeedUsers
    /\ nextUserId = 2
    /\ redis = <<>>
    /\ now = 0
    /\ ticks = 0
    /\ nextUuid = 2
    /\ calls = [c \in Calls |-> IdleCall]
    /\ issued = {}
    /\ presented = {}
    /\ rotated = {}
    /\ revoked = {}
    /\ loggedIn = {}
    /\ resurrected = {}
    /\ boilerplates = <<>>
    /\ nextBoilerplateId = 1
    /\ disk = <<>>
    /\ job = IdleJob
    /\ likes = <<>>
    /\ reactions = IdleReactions
    /\ pager \in [pc : {"paging"}, table : PageTables, first : FirstValues,
                   where : Wheres, orderBy : OrderBys, after : {<<>>},
                   pages : {0}, seen : {<<>>}]

NextPages == Boilerplates
SpecPages == InitPages /\ [][NextPages]_vars


\* ------------------------------------- BoilerplateResolver, the mutations
\* The /graphql route: json, cookieParser, authenticate, then the context
\* {user: req.user} and the resolver.  A request authenticate answered
\* itself never has a resolver run; one it passed on may hold several
\* mutations.
ReachedResolver(c) ==
    /\ Done(c)
    /\ calls[c].op = "authenticate"
    /\ calls[c].result = Ok
ContextUser(c) == calls[c].user
\* user.sub as the authorId of the service: the one author of the catalog.
AuthorIdOf(user) == <<"u">>
NewTitles == {<<"b">>}

\* if (!user) throw new AuthenticationError(...): ErrorCode.UNAUTHENTICATED.
Unauthenticated(c, op) ==
    /\ ReactionFree(c)
    /\ reactions' = [reactions EXCEPT ![c] =
           ReactionThrow([IdleReaction EXCEPT !.op = op], "UNAUTHENTICATED")]
    /\ UNCHANGED <<authVars, createVars, pageVars, boilerplates, likes>>

\* BoilerplateService.updateBoilerplate: prisma.boilerplate.update({where:
\* {id}, data}); a missing row rejects and the catch throws a CustomError.
UpdateBoilerplate(c, id, userId, title) ==
    /\ ReactionFree(c)
    /\ LET call == [IdleReaction EXCEPT !.op = "update", !.userId = userId,
                                        !.boilerplateId = id]
       IN  IF id \notin DOMAIN boilerplates
           THEN /\ reactions' = [reactions EXCEPT ![c] =
                       ReactionThrow(call, "Failed to update boilerplate")]
                /\ UNCHANGED boilerplates
           ELSE /\ boilerplates' = [boilerplates EXCEPT ![id].title = title]
                /\ reactions' = [reactions EXCEPT ![c] = ReactionReturn(call)]
    /\ UNCHANGED <<authVars, createVars, pageVars, likes>>

\* BoilerplateService.deleteBoilerplate up to its last await:
\* file.deleteMany and userLikes.deleteMany({where: {boilerplateId}}).
DeleteBoilerplate(c, id, userId) ==
    /\ ReactionFree(c)
    /\ likes' = [q \in {p \in DOMAIN likes : p[2] # id} |-> likes[q]]
    /\ reactions' = [reactions EXCEPT ![c] =
           [IdleReaction EXCEPT !.op = "delete", !.pc = "delete",
                                !.userId = userId, !.boilerplateId = id]]
    /\ UNCHANGED <<authVars, createVars, pageVars, boilerplates>>

\* deleteBoilerplate: prisma.boilerplate.delete({where: {id}}); a missing
\* row rejects and the catch throws a CustomError.
DeleteRow(c) ==
    /\ reactions[c].op = "delete"
    /\ reactions[c].pc = "delete"
    /\ IF reactions[c].boilerplateId \notin DOMAIN boilerplates
       THEN /\ reactions' = [reactions EXCEPT ![c] =
                   ReactionThrow(@, "Failed to delete boilerplate")]
            /\ UNCHANGED boilerplates
       ELSE /\ boilerplates' =
                   [id \in DOMAIN boilerplates \ {reactions[c].boilerplateId} |->
                       boilerplates[id]]
            /\ reactions' = [reactions EXCEPT ![c] = ReactionReturn(@)]
    /\ UNCHANGED <<authVars, createVars, pageVars, likes>>

\* The five mutations: the guard on context.user, then the service call
\* with user.sub.
MutationCreateBoilerplate(c, title, category, zip) ==
    /\ ReachedResolver(c)
    /\ IF ContextUser(c) = NoUser
       THEN Unauthenticated(c, "create")
       ELSE CreateBoilerplate(title, AuthorIdOf(ContextUser(c)), category, zip)
MutationUpdateBoilerplate(c, id, title) ==
    /\ ReachedResolver(c)
    /\ IF ContextUser(c) = NoUser
       THEN Unauthenticated(c, "update")
       ELSE UpdateBoilerplate(c, id, ContextUser(c).id, title)
MutationDeleteBoilerplate(c, id) ==
    /\ ReachedResolver(c)
    /\ IF ContextUser(c) = NoUser
       THEN Unauthenticated(c, "delete")
       ELSE DeleteBoilerplate(c, id, ContextUser(c).id)
MutationLikeBoilerplateUnguarded(c, id) ==
    /\ ReachedResolver(c)
    /\ LikeBoilerplate(c, id, ContextUser(c).id)
MutationLikeBoilerplate(c, id) ==
    /\ ReachedResolver(c)
    /\ IF ContextUser(c) = NoUser
       THEN Unauthenticated(c, "like")
       ELSE LikeBoilerplate(c, id, ContextUser(c).id)
MutationUnlikeBoilerplate(c, id) ==
    /\ ReachedResolver(c)
    /\ IF ContextUser(c) = NoUser
       THEN Unauthenticated(c, "unlike")
       ELSE UnlikeBoilerplate(c, id, ContextUser(c).id)

\* The server in any environment with BOILERPLATE_BASE_DIR set, user 1
\* signed in and one boilerplate in the catalog.
InitMutations ==
    /\ env \in Environments
    /\ users = SeedUsers
    /\ nextUserId = 2
    /\ redis = RedisSet(RedisSet(<<>>, SessionKey(1, 1), TokenData(1, 1, 0),
                                 REFRESH_TOKEN_EXPIRY, 0),
                        TokenKey(SeedTokens.refreshToken), TokenData(1, 1, 0),
                        REFRESH_TOKEN_EXPIRY, 0)
    /\ now = 0
    /\ ticks = 0
    /\ nextUuid = 2
    /\ calls = [c \in Calls |-> IdleCall]
    /\ issued = {SeedTokens.refreshToken}
    /\ presented = {}
    /\ rotated = {}
    /\ revoked = {}
    /\ loggedIn = {}
    /\ resurrected = {}
    /\ boilerplates = SeedBoilerplates
    /\ nextBoilerplateId = 2
    /\ disk = <<>>
    /\ job = [IdleJob EXCEPT !.base = << <<"s">> >>]
    /\ likes = <<>>
    /\ reactions = IdleReactions
    /\ pager = IdlePager

NextMutations ==
    \/ \E c \in Calls, header \in Headers : Authenticate(c, header)
    \/ \E c \in Calls, title \in Titles, category \in Categories :
           MutationCreateBoilerplate(c, title, category, "none")
    \/ \E ok \in BOOLEAN : CreateInitRepo(ok)
    \/ CreateRollback
    \/ \E c \in Calls, id \in LikeTargets, title \in NewTitles :
           MutationUpdateBoilerplate(c, id, title)
    \/ \E c \in Calls, id \in LikeTargets : MutationDeleteBoilerplate(c, id)
    \/ \E c \in Calls : DeleteRow(c)
    \/ \E c \in Calls, id \in LikeTargets : MutationLikeBoilerplate(c, id)
    \/ \E c \in Calls : LikeTransaction(c)
    \/ \E c \in Calls, id \in LikeTargets : MutationUnlikeBoilerplate(c, id)
    \/ \E c \in Calls : UnlikeTransaction(c)
SpecMutations == InitMutations /\ [][NextMutations]_vars

\* ================================================================ claims
RefreshDone(c) == calls[c].op = "refresh" /\ Done(c)
Succeeded(c) == calls[c].result.status = "ok"
\* The error kind the specification calls InvalidToken.
InvalidToken == Error("Invalid refresh token", "UNAUTHORIZED")

\* C1: a refreshToken call given a refresh token that an earlier call has
\* already succeeded with is rejected with InvalidToken; and the first
\* call given a delivered token, with no other call given the same token
\* while it runs, succeeds and delivers a new pair, as long as the token
\* has not expired and its user still exists.
C1_RotationExactlyOnce ==
    \A c \in Calls : RefreshDone(c) =>
        /\ calls[c].replay => calls[c].result = InvalidToken
        /\ ( /\ calls[c].fresh
             /\ ~calls[c].overlap
             /\ now < calls[c].refreshToken.exp
             /\ calls[c].userId \in DOMAIN users )
           => /\ Succeeded(c)
              /\ calls[c].gen.refreshToken \in issued
              /\ calls[c].gen.accessToken.secret = JWT_SECRET

\* A call is rejected for lack of a record after an earlier call rotated
\* the very token it was given.
C1_Witness ==
    \E c \in Calls :
        /\ RefreshDone(c)
        /\ calls[c].replay
        /\ calls[c].refreshToken \in rotated
        /\ calls[c].reason = "notFound"
        /\ calls[c].result = InvalidToken

\* C2: no refreshToken call succeeds with a token another call has
\* succeeded with, however the two calls interleave.
C2_AtMostOneRefreshSucceeds ==
    \A c \in Calls : (RefreshDone(c) /\ Succeeded(c)) => ~calls[c].second

\* C3: a refreshToken call given a token that was delivered to a user
\* before a logout of that user, begun after that logout completed, does
\* not succeed.
C3_LogoutInvalidatesAllSessions ==
    \A c \in Calls : (RefreshDone(c) /\ calls[c].afterLogout) => ~Succeeded(c)

\* C4: a refreshToken call rejected at the signature/expiry check, the
\* store lookup, the userId comparison or the user load ends with an
\* UNAUTHORIZED error and has sent no SET and no DEL.
ValidationReasons == {"jwt", "notFound", "mismatch", "noUser"}
C4_RejectionLeavesStore ==
    \A c \in Calls :
        (RefreshDone(c) /\ calls[c].reason \in ValidationReasons) =>
            /\ calls[c].result.status = "error"
            /\ calls[c].result.code = "UNAUTHORIZED"
            /\ calls[c].muts = 0

\* A call is rejected at the user load: its token verified and its
\* record was found, and the user row is gone.
C4_Witness ==
    \E c \in Calls :
        /\ RefreshDone(c)
        /\ calls[c].reason = "noUser"
        /\ TokenKey(calls[c].refreshToken) \in DOMAIN redis

\* C5: whenever no request is in flight, for every delivered refresh
\* token the key refresh_token:{userId}:{tokenId} exists exactly when the
\* key token:{refreshToken} exists.
C5_KeysInvalidatedTogether ==
    (\A c \in Calls : ~Busy(c)) =>
        \A t \in issued :
            SessionKey(t.payload.sub, t.payload.jti) \in DOMAIN redis
                <=> TokenKey(t) \in DOMAIN redis

\* C6: a successful refreshToken call returns a session id and a refresh
\* token other than the ones it was given; the key of a token some call
\* has succeeded with is never in the store again, and no call begun
\* after that success succeeds with that token.
C6_OldTokenRetired ==
    /\ \A c \in Calls : (RefreshDone(c) /\ Succeeded(c)) =>
           /\ calls[c].gen.tokenId # calls[c].tokenId
           /\ calls[c].gen.refreshToken # calls[c].refreshToken
           /\ ~calls[c].replay
    /\ \A t \in rotated : TokenKey(t) \notin DOMAIN redis

\* A refresh has succeeded and its new token is stored while the old
\* one is gone.
C6_Witness ==
    \E c \in Calls :
        /\ RefreshDone(c)
        /\ Succeeded(c)
        /\ calls[c].refreshToken \in rotated
        /\ TokenKey(calls[c].gen.refreshToken) \in DOMAIN redis


\* C7: a logout call never fails; one that finds no session key of its
\* user sends no DEL; and on every store the program reaches, what a
\* logout removes leaves no session key of that user, so that a second
\* logout would remove nothing more.
C7_LogoutIdempotent ==
    /\ \A c \in Calls : (Done(c) /\ calls[c].op = "logout") =>
           /\ Succeeded(c)
           /\ calls[c].cookie.state = "cleared"
           /\ calls[c].keys = {} => calls[c].muts = 0
    /\ \A u \in DOMAIN users :
           LET once == RedisDel(redis, RedisKeys(redis, u))
           IN  /\ RedisKeys(once, u) = {}
               /\ RedisDel(once, RedisKeys(once, u)) = once

\* A logout of a user whose earlier logout has completed finds no key,
\* succeeds and has sent nothing.
C7_Witness ==
    \E c \in Calls :
        /\ Done(c)
        /\ calls[c].op = "logout"
        /\ calls[c].keys = {}
        /\ \E t \in revoked : t.payload.sub = calls[c].userId
        /\ Succeeded(c)
        /\ calls[c].muts = 0

\* C8: validateUser returns the stored user without its password for an
\* email and password that match a stored user and null for every other
\* pair, whether the email is unknown or the password wrong; a login
\* rejected by it ends with the one InvalidCredentials error, and the
\* step that rejects it changes neither the users nor the store.
C8_Matches(email, password) ==
    {id \in DOMAIN users :
        /\ users[id].email = email
        /\ users[id].password = BcryptHash(password)}
C8_ValidateUserInv ==
    /\ \A email \in Emails, password \in Passwords :
           IF C8_Matches(email, password) = {}
           THEN validateUser(users, email, password) = <<>>
           ELSE \E id \in C8_Matches(email, password) :
                    validateUser(users, email, password) =
                        <<[id |-> id, email |-> email, role |-> users[id].role]>>
    /\ \A c \in Calls :
           (Done(c) /\ calls[c].op = "login" /\ ~Succeeded(c)) =>
               /\ calls[c].result = InvalidCredentials
               /\ calls[c].muts = 0
C8_RejectedLoginStep ==
    \E c \in Calls :
        /\ calls'[c].op = "login"
        /\ calls'[c].pc = "done"
        /\ calls'[c].reason \in {"unknownEmail", "wrongPassword"}
        /\ calls[c] # calls'[c]
C8_ValidateUser ==
    /\ []C8_ValidateUserInv
    /\ [][C8_RejectedLoginStep => UNCHANGED <<users, redis>>]_vars

\* A login with a stored email and a wrong password has been rejected,
\* while the same password with an unknown email is rejected alike.
C8_Witness ==
    \E c \in Calls :
        /\ Done(c)
        /\ calls[c].op = "login"
        /\ calls[c].reason = "wrongPassword"
        /\ calls[c].result = InvalidCredentials
        /\ \E email \in Emails, password \in Passwords :
               /\ FindUniqueByEmail(users, email) = {}
               /\ validateUser(users, email, password) = <<>>

\* C9: a refreshToken call rejected because the token does not verify,
\* because no record is stored under its value, or because the record's
\* userId is not the token's subject ends with one and the same error.
C9_OneInvalidTokenError ==
    /\ \A c \in Calls :
           (RefreshDone(c) /\ calls[c].reason \in {"jwt", "notFound", "mismatch"})
               => calls[c].result = InvalidToken
    /\ JwtError = NotFoundError
    /\ NotFoundError = MismatchError

\* A token with made-up claims, signed with the refresh secret and never
\* issued, has been rejected at the store lookup.
C9_Witness ==
    \E c \in Calls :
        /\ RefreshDone(c)
        /\ calls[c].reason = "notFound"
        /\ calls[c].refreshToken \notin issued
        /\ calls[c].refreshToken.secret = REFRESH_SECRET
        /\ calls[c].result = InvalidToken

\* C10: a refreshToken call given a refresh token signed with the refresh
\* secret whose exp has passed is rejected with InvalidToken at the
\* verification and has sent no SET and no DEL, whether or not a record
\* of the token is still stored.
C10_ExpiredTokenRejected ==
    \A c \in Calls :
        ( /\ RefreshDone(c)
          /\ calls[c].refreshToken.secret = REFRESH_SECRET
          /\ now >= calls[c].refreshToken.exp )
        => /\ calls[c].result = InvalidToken
           /\ calls[c].reason = "jwt"
           /\ calls[c].muts = 0

\* An expired delivered token has been rejected while its record was
\* still in the store.
C10_Witness ==
    \E c \in Calls :
        /\ RefreshDone(c)
        /\ calls[c].refreshToken \in issued
        /\ now >= calls[c].refreshToken.exp
        /\ TokenKey(calls[c].refreshToken) \in DOMAIN redis
        /\ calls[c].result = InvalidToken

\* C11: a refreshToken call, of either variant of the service, that finds
\* the record of its token and then no row of the token's user ends with
\* the 'User not found' error, which is not the InvalidToken error, and
\* has sent no SET and no DEL.
C11_UserNotFound ==
    \A c \in Calls :
        (Done(c) /\ calls[c].reason = "noUser") =>
            /\ calls[c].result = UserNotFound
            /\ calls[c].result # InvalidToken
            /\ calls[c].muts = 0

\* C12: a successful refreshToken call returns the new access token, its
\* returned value carries no refresh token, and the new refresh token is
\* in the cookie.
C12_RefreshTokenCookieOnly ==
    \A c \in Calls :
        (RefreshDone(c) /\ Succeeded(c)) =>
            /\ calls[c].body.accessToken = calls[c].gen.accessToken
            /\ calls[c].cookie = [state |-> "set",
                                  value |-> calls[c].gen.refreshToken]
            /\ calls[c].body.refreshToken = NoToken

\* C13: a login, signup, refreshToken or logout call that ends because a
\* command of the redis client failed ends with a server-side error
\* (code INTERNAL_SERVER_ERROR) and not with an UNAUTHORIZED one.
C13_StoreFailureIsServerError ==
    \A c \in Calls :
        (Done(c) /\ calls[c].reason = "store") =>
            /\ calls[c].result.status = "error"
            /\ calls[c].result.code = "INTERNAL_SERVER_ERROR"
            /\ calls[c].result.code # "UNAUTHORIZED"

\* C14: the access token and the refresh token of one generateTokens call
\* carry the same session id, the one the call returns; verified at once,
\* the access token with verifyToken and the refresh token with the
\* refresh secret, each gives back the user's id as sub and that session
\* id as jti.
C14_RoundTrip(user, tokenId, t) ==
    LET gen == generateTokens(user, tokenId, t)
    IN  /\ gen.tokenId = tokenId
        /\ gen.accessToken.payload.jti = gen.refreshToken.payload.jti
        /\ verifyToken(gen.accessToken, t) # <<>>
        /\ verifyToken(gen.accessToken, t)[1].sub = user.id
        /\ verifyToken(gen.accessToken, t)[1].jti = tokenId
        /\ JwtVerify(gen.refreshToken, REFRESH_SECRET, t)
        /\ gen.refreshToken.payload = [sub |-> user.id, jti |-> tokenId]
C15_LoginTokenAccepted ==
    /\ \A c \in Calls :
           (Done(c) /\ calls[c].op = "login" /\ Succeeded(c)) =>
               /\ calls[c].body.accessToken.payload.sub = calls[c].user.id
               /\ calls[c].body.accessToken \in loggedIn
    /\ \A c \in Calls :
           ( /\ Done(c)
             /\ calls[c].op = "authenticate"
             /\ calls[c].bearer \in loggedIn
             /\ now < calls[c].bearer.exp )
           => /\ Succeeded(c)
              /\ calls[c].user.id = calls[c].bearer.payload.sub

\* C16: in every state the store holds, for any userId and session id, at
\* most one record under a token:{refreshToken} key and at most one under
\* a refresh_token:{userId}:{tokenId} key, and the record says the pair
\* its composite key names.
C16_Records(kind) == {k \in DOMAIN redis : k[1] = kind}
C16_OneRecordPerSession ==
    /\ \A k1, k2 \in C16_Records("token") :
           ( /\ redis[k1].value.userId = redis[k2].value.userId
             /\ redis[k1].value.tokenId = redis[k2].value.tokenId )
           => k1 = k2
    /\ \A k1, k2 \in C16_Records("refresh_token") :
           ( /\ redis[k1].value.userId = redis[k2].value.userId
             /\ redis[k1].value.tokenId = redis[k2].value.tokenId )
           => k1 = k2
    /\ \A k \in C16_Records("refresh_token") :
           /\ redis[k].value.userId = k[2]
           /\ redis[k].value.tokenId = k[3]
    /\ \A k \in C16_Records("token") :
           /\ redis[k].value.userId = k[2].payload.sub
           /\ redis[k].value.tokenId = k[2].payload.jti

\* Two sessions of one user are live at once, each with both its keys.
C16_Witness ==
    \E k1, k2 \in C16_Records("token") :
        /\ k1 # k2
        /\ redis[k1].value.userId = redis[k2].value.userId
        /\ SessionKey(redis[k1].value.userId, redis[k1].value.tokenId)
               \in DOMAIN redis
        /\ SessionKey(redis[k2].value.userId, redis[k2].value.tokenId)
               \in DOMAIN redis
        /\ \A c \in Calls : ~Busy(c)

\* C17: the refresh cookie tracks the session.  A login, signup or
\* refreshToken call that has written the record of its new refresh token
\* to the store answers with the refreshToken cookie set to that token,
\* and a logout that completed answers with the cookie cleared.
C17_WroteSession(c) ==
    /\ Done(c)
    /\ calls[c].op \in {"login", "signup", "refresh"}
    /\ calls[c].muts = (IF calls[c].op = "refresh" THEN 4 ELSE 2)
C19_OldKeys(c) ==
    {TokenKey(calls[c].refreshToken),
     SessionKey(calls[c].userId, calls[c].tokenId)}
C19_NewKeys(c) ==
    {TokenKey(calls[c].gen.refreshToken),
     SessionKey(calls[c].userId, calls[c].gen.tokenId)}
C19_DeletesBeforeWrites ==
    \A c \in Calls :
        (calls[c].op = "refresh" /\ calls[c].gen # NoTokens) =>
            /\ (C19_NewKeys(c) \cap DOMAIN redis # {})
                   => C19_OldKeys(c) \cap DOMAIN redis = {}
            /\ calls[c].pc \in {"delToken", "delSession"}
                   => C19_NewKeys(c) \cap DOMAIN redis = {}
            /\ calls[c].pc \in {"setSession", "setToken"}
                   => C19_OldKeys(c) \cap DOMAIN redis = {}

\* A refreshToken call has deleted both keys of the session it was given
\* and written the first key of the new one.
C19_Witness ==
    \E c \in Calls :
        /\ calls[c].op = "refresh"
        /\ calls[c].pc = "setToken"
        /\ calls[c].muts = 3
        /\ SessionKey(calls[c].userId, calls[c].gen.tokenId) \in DOMAIN redis
        /\ C19_OldKeys(c) \cap DOMAIN redis = {}

\* C20: a refreshToken call interleaved with a logout of the same user
\* cannot resurrect a session.  A refresh token minted by a refreshToken
\* call that began before the logout of its user completed and stored its
\* new session after it is never accepted by a later refreshToken call
\* (the later call's token being covered by no further logout).
C20_NoResurrection ==
    \A c \in Calls :
        ( /\ RefreshDone(c)
          /\ calls[c].refreshToken \in resurrected
          /\ ~calls[c].afterLogout )
        => ~Succeeded(c)

\* C21: login validates the credentials, issues the tokens, writes the
\* session record and only then sets the cookie and returns the tokens.
\* While a login is writing its record it has a validated user and minted
\* tokens and has neither set the cookie nor returned anything; a login
\* that succeeded has sent both writes of its session, its record is in
\* the store under token:{refreshToken}, the cookie is set and the tokens
\* are returned; a login that failed, a store failure
\* included, set no cookie and returned no token.
C21_Login(c) == calls[c].op = "login" /\ calls[c].pc # "idle"
C21_LoginOrder ==
    \A c \in Calls : C21_Login(c) =>
        /\ Busy(c) =>
               /\ calls[c].user.id \in DOMAIN users
               /\ calls[c].gen.refreshToken.payload.sub = calls[c].user.id
               /\ calls[c].cookie = NoCookie
               /\ calls[c].body = NoBody
        /\ (Done(c) /\ Succeeded(c)) =>
               /\ RedisGet(redis, TokenKey(calls[c].gen.refreshToken))
                      = <<calls[c].tokenData>>
               /\ calls[c].muts = 2
               /\ calls[c].cookie =
                      [state |-> "set", value |-> calls[c].gen.refreshToken]
               /\ calls[c].body = AuthResponse(calls[c].gen)
        /\ (Done(c) /\ ~Succeeded(c)) =>
               /\ calls[c].cookie = NoCookie
               /\ calls[c].body = NoBody

\* A login whose credentials were valid failed at a store write.
C21_Witness ==
    \E c \in Calls :
        /\ Done(c) /\ calls[c].op = "login"
        /\ calls[c].result = AuthenticationFailed
        /\ calls[c].gen # NoTokens
        /\ calls[c].cookie = NoCookie

\* C22: a successful refresh replaces exactly one session record and a
\* login adds exactly one: refreshToken never raises the number of a
\* user's live sessions, so a user has at most as many records under
\* token:{refreshToken} keys as sessions were created for that user (the
\* one of the signup, and one for every login that succeeded).
C22_LiveSessions(userId) ==
    {k \in DOMAIN redis : k[1] = "token" /\ redis[k].value.userId = userId}
C22_Created(userId) ==
    1 + Cardinality({t \in loggedIn : t.payload.sub = userId})
C22_RefreshReplacesOne ==
    \A userId \in DOMAIN users :
        Cardinality(C22_LiveSessions(userId)) <= C22_Created(userId)

\* C23: signup creates a session record exactly when it creates a user.
\* A signup that succeeded has created a user whose session record is in
\* the store under the refresh token it returned; a signup that returned
\* an error has left neither a user row nor a session key of its own.
C23_SignupAllOrNothing ==
    \A c \in Calls : (Done(c) /\ calls[c].op = "signup") =>
        /\ Succeeded(c) =>
               /\ calls[c].userId \in DOMAIN users
               /\ RedisGet(redis, TokenKey(calls[c].body.refreshToken))
                      = <<calls[c].tokenData>>
               /\ calls[c].tokenData.userId = calls[c].userId
        /\ ~Succeeded(c) =>
               /\ calls[c].userId \notin DOMAIN users
               /\ TokenKey(calls[c].gen.refreshToken) \notin DOMAIN redis
               /\ SessionKey(calls[c].userId, calls[c].gen.tokenId)
                      \notin DOMAIN redis

\* C24: createBoilerplate rolls back on failure.  When the call has thrown
\* after it created the database record, the record is gone and no
\* directory the call created is left on disk.
C24_RollsBack ==
    (job.pc = "done" /\ job.status = "error" /\ job.id # 0) =>
        /\ job.id \notin DOMAIN boilerplates
        /\ job.made \cap DOMAIN disk = {}

\* C25: refresh is not all-or-nothing with respect to the store.  When
\* storeRefreshToken fails inside a refreshToken call, the call returns
\* the error after both keys of the old session were deleted: the
\* presented refresh token has no record left, the new token was neither
\* set as cookie nor returned to anyone, and it has no record under
\* token:{refreshToken} unless the failed command was carried out.
C25_RefreshNotAtomic ==
    \A c \in Calls :
        (RefreshDone(c) /\ calls[c].result = StoreFailed) =>
            /\ calls[c].muts >= 2
            /\ TokenKey(calls[c].refreshToken) \notin DOMAIN redis
            /\ SessionKey(calls[c].userId, calls[c].tokenId)
                   \notin DOMAIN redis
            /\ calls[c].gen.refreshToken \notin issued
            /\ calls[c].cookie = NoCookie
            /\ calls[c].body = NoBody
            /\ calls[c].muts < 4 =>
                   TokenKey(calls[c].gen.refreshToken) \notin DOMAIN redis

\* A refreshToken call given a token never presented before has deleted
\* its session and failed at the first write of the new one.
C25_Witness ==
    \E c \in Calls :
        /\ RefreshDone(c)
        /\ calls[c].result = StoreFailed
        /\ calls[c].fresh
        /\ calls[c].muts = 2
        /\ \A k \in DOMAIN redis : redis[k].value.userId # calls[c].userId

\* C26: logout(userId) affects only that user.  No step of a logout call
\* removes or changes a record of another user, under either kind of key,
\* and none changes the users or the tokens delivered: the records of the
\* other users stay where refresh looks them up.
C26_LogoutStep(c) ==
    /\ calls'[c].op = "logout"
    /\ calls'[c].pc \in {"del", "done"}
    /\ calls[c] # calls'[c]
C26_OthersKept(userId) ==
    \A k \in DOMAIN redis :
        redis[k].value.userId # userId =>
            /\ k \in DOMAIN redis'
            /\ redis'[k] = redis[k]
C26_LogoutOnlyOwnUser ==
    [][\A c \in Calls :
          C26_LogoutStep(c) =>
              /\ C26_OthersKept(calls'[c].userId)
              /\ UNCHANGED <<users, issued>>]_vars

\* A logout has deleted the session keys of its user while another user
\* has a session under both keys.
C26_Witness ==
    \E c \in Calls :
        /\ Done(c) /\ calls[c].op = "logout" /\ Succeeded(c)
        /\ calls[c].muts = 1
        /\ \E k \in DOMAIN redis :
               /\ k[1] = "token"
               /\ redis[k].value.userId # calls[c].userId
               /\ SessionKey(redis[k].value.userId, redis[k].value.tokenId)
                      \in DOMAIN redis

\* C27: after any interleaving of likeBoilerplate and unlikeBoilerplate
\* calls each boilerplate's stars equals the number of its like rows and
\* no user has more than one like row for a boilerplate; a call that
\* fails leaves likes and stars unchanged; a like succeeds only for a user
\* without a like and an unlike only for a user with one.
RECURSIVE C27_Sum(_, _)
C27_Sum(f, S) ==
    IF S = {} THEN 0
    ELSE LET x == CHOOSE y \in S : TRUE
         IN  f[x] + C27_Sum(f, S \ {x})
C27_LikesOf(id) == {pair \in DOMAIN likes : pair[2] = id}
C27_Counted ==
    /\ \A id \in DOMAIN boilerplates :
           boilerplates[id].stars = C27_Sum(likes, C27_LikesOf(id))
    /\ \A pair \in DOMAIN likes :
           /\ likes[pair] = 1
           /\ pair[2] \in DOMAIN boilerplates
C27_Step(c) == reactions'[c] # reactions[c] /\ reactions'[c].pc = "done"
C27_StarsMatchLikes ==
    /\ []C27_Counted
    /\ [][\A c \in Calls : C27_Step(c) =>
             LET pair == <<reactions'[c].userId, reactions'[c].boilerplateId>>
             IN  /\ reactions'[c].status = "error" =>
                        UNCHANGED <<likes, boilerplates>>
                 /\ (reactions'[c].status = "ok"
                        /\ reactions'[c].op = "like") =>
                        ~FindLike(pair)
                 /\ (reactions'[c].status = "ok"
                        /\ reactions'[c].op = "unlike") =>
                        FindLike(pair)]_vars

\* Two like calls of one user for one boilerplate overlapped: the second
\* transaction failed on the unique pair and the boilerplate has one star.
C27_Witness ==
    \E c \in Calls :
        /\ reactions[c].pc = "done"
        /\ reactions[c].op = "like"
        /\ reactions[c].error = "P2002"
        /\ boilerplates[reactions[c].boilerplateId].stars = 1
        /\ likes[ReactionPair(c)] = 1

\* C28: cursor pagination is complete and duplicate-free.  When the
\* client has followed endCursor until hasNextPage was false, the ids it
\* was given are the ids of the rows matching where, each exactly once.
C28_Matching == {r.id : r \in WhereRows(pager.table, pager.where)}
C28_CompleteNoDuplicates ==
    pager.pc = "done" =>
        /\ {pager.seen[i] : i \in DOMAIN pager.seen} = C28_Matching
        /\ Len(pager.seen) = Cardinality(C28_Matching)

\* C29: no boilerplate state is changed on behalf of an unauthenticated
\* caller.  A mutation whose context has no user throws the
\* authentication error and leaves the records, the likes and the
\* directories as they were; a service call starts only for a request that
\* authenticate passed on, and with a user only if its bearer token
\* verified; a bearer token that fails verification is answered 401
\* 'Invalid token' with no user set.
C29_Starts(c) == ReactionFree(c) /\ reactions'[c] # reactions[c]
C29_Rejected(call) ==
    /\ call.op = "authenticate"
    /\ call.pc = "done"
    /\ call.bearer # NoToken
    /\ ~JwtVerify(call.bearer, MiddlewareSecret, now)
C29_Step ==
    /\ \A c \in Calls :
           C29_Starts(c) =>
               /\ ReachedResolver(c)
               /\ ContextUser(c) # NoUser =>
                      JwtVerify(calls[c].bearer, MiddlewareSecret, now)
               /\ ContextUser(c) = NoUser =>
                      /\ reactions'[c].status = "error"
                      /\ reactions'[c].error = "UNAUTHENTICATED"
                      /\ UNCHANGED <<boilerplates, likes, disk, job,
                                     nextBoilerplateId>>
    /\ (JobFree /\ job' # job) =>
           \E c \in Calls :
               /\ ReachedResolver(c)
               /\ ContextUser(c) # NoUser
               /\ JwtVerify(calls[c].bearer, MiddlewareSecret, now)
    /\ \A c \in Calls :
           C29_Rejected(calls'[c]) =>
               /\ calls'[c].result = InvalidBearer
               /\ calls'[c].user = NoUser
C29_NoUnauthenticatedChange == [][C29_Step]_vars
C29_Witness ==
    \E c, d \in Calls :
        /\ reactions[c].error = "UNAUTHENTICATED"
        /\ C29_Rejected(calls[d])
        /\ calls[d].result = InvalidBearer
        /\ boilerplates = SeedBoilerplates
        /\ likes = <<>>

\* C30: processUploadedZip returns success: true only if the uploaded
\* files were committed: whenever the result of a finished
\* processUploadedZip has success, this call's git commit succeeded in a
\* repository that exists.
C30_SuccessMeansCommitted ==
    (job.pc \in {"processed", "rollback", "done"} /\ job.processResult.success) =>
        /\ job.committed
        /\ job.fullPath \in DOMAIN disk
        /\ disk[job.fullPath].repo

====
